---- MODULE Spec2Model ----
(***************************************************************************)
(* Model of the annotation overlay of deixis-chrome-ext                    *)
(* (AnnotationOverlay component, src/unnamed/part_001): the annotation     *)
(* list, the redo stack, the in-progress slot, the pointer/keyboard        *)
(* sessions and the text input, driven by the browser's events.            *)
(*                                                                         *)
(* Every React event handler is a pure operator from the component state   *)
(* (a record of the useState cells) to the next component state.  An       *)
(* action of the model is one browser event: it applies the handlers the   *)
(* event dispatches to, in dispatch order.                                 *)
(***************************************************************************)
EXTENDS Integers, Sequences, FiniteSets, TLC

(***************************************************************************)
(* Bounds of the model.                                                    *)
(***************************************************************************)
\* annotations alive at once (list + redo stack + in-progress + open input)
MaxAnnotations == 2
\* largest value of Date.now() (the clock starts at 1)
MaxClock == 2
\* largest number of points of a freehand path
MaxPathLen == 2
\* callouts placed in one run
MaxCallouts == 2
\* coordinates of committed geometry stay within 0..CanvasSize
CanvasSize == 40
\* |rotation| in degrees stays within MaxRotation
MaxRotation == 180
\* pointer moves that change the committed list in one run
MaxMoves == 1
\* longest annotation list passed to a geometry function examined on its own
MaxListLen == 3
\* Copy and Save commands issued in one run
MaxExports == 2
\* overlay sessions opened in one run
MaxSessions == 2
\* image containers of the page
MaxContainers == 2
\* mutations the page itself makes to its document in one run
MaxPageMutations == 4

(***************************************************************************)
(* Program constants.                                                      *)
(***************************************************************************)
hitPadding == 10
calloutRadius == 14
handleRadius == 6
rotationHandleRadius == 8
handleDistance == 25
eraseRadius == 10
duplicateOffset == 20
textPadding == 4
textHeight == 16
\* width ctx.measureText reports for the texts of the model
TextWidth == 10
InitialBrushSize == 3
TextStrokeWidth == 3
InitialOpacity == 1
InitialCalloutCounter == 1
\* Math.PI / 12, in degrees
snapAngle == 15

Pt(px, py) == [x |-> px, y |-> py]

\* the {x: 0, y: 0} literal of the source; also fills the geometry fields a
\* variant leaves undefined
ZeroPoint == Pt(0, 0)

\* pointer positions on the canvas
CanvasPoints == {Pt(0, 20), Pt(40, 40)}

\* where the pointer is pressed on the canvas
PressPoints == {Pt(0, 20)}

\* pointer positions on the handle elements laid over the canvas
HandlePoints == {Pt(0, 20), Pt(40, 40), Pt(20, 0)}

\* pointer positions the window-level handlers also see (outside the canvas)
WindowPoints == {Pt(70, 30), Pt(20, -10)}

\* the tools of the editing scenario: freehand, callout and text commits,
\* selection and duplication
EditTools == {"move", "draw", "text", "callout"}

\* the tools of the erasing scenario
EraseTools == {"draw", "callout", "eraser"}

\* the tools of the gesture scenario: drawing, dragging, resizing, rotating
\* and erasing sessions
SessionTools == {"move", "draw", "rectangle", "eraser"}

\* the tools of the transform scenario: a shape is drawn, selected, dragged,
\* resized, rotated and duplicated
TransformTools == {"move", "rectangle"}

\* the tools of the export scenario
OverlayTools == {"draw", "callout"}

\* ANNOTATION_COLORS[0].value, the colour selected throughout
InitialColor == "#22C55E"

\* what the user can have typed into the text input
InputValues == {"", "hi"}

ResizeHandles == <<"nw", "n", "ne", "e", "se", "s", "sw", "w">>

Abs(n) == IF n < 0 THEN -n ELSE n
Min(a, b) == IF a < b THEN a ELSE b
Max(a, b) == IF a < b THEN b ELSE a
Sq(n) == n * n
DistSq(p, q) == Sq(p.x - q.x) + Sq(p.y - q.y)

(***************************************************************************)
(* The Annotation record.  Every variant carries every field; a field the  *)
(* source leaves undefined for a variant holds a fixed filler and is never *)
(* read for that variant.  An undefined fillColor (no fill) is "".          *)
(***************************************************************************)
Annotation(id, type, color, strokeWidth) ==
    [id |-> id, type |-> type, color |-> color, strokeWidth |-> strokeWidth,
     opacity |-> InitialOpacity, fillColor |-> "", points |-> <<>>, start |-> ZeroPoint,
     end |-> ZeroPoint, text |-> "", position |-> ZeroPoint,
     calloutNumber |-> 0, rotation |-> 0]

\* `annotation-${Date.now()}`
NewId(now) == now

(***************************************************************************)
(* Trigonometry at the exactly representable angles (multiples of 90       *)
(* degrees); angles are integers, in degrees.                              *)
(***************************************************************************)
NormDeg(a) == ((a % 360) + 360) % 360
CosDeg(a) == CASE NormDeg(a) = 0 -> 1 [] NormDeg(a) = 180 -> -1 [] OTHER -> 0
SinDeg(a) == CASE NormDeg(a) = 90 -> 1 [] NormDeg(a) = 270 -> -1 [] OTHER -> 0
AxisAligned(dx, dy) == dx = 0 \/ dy = 0
\* Math.atan2(dy, dx) in degrees, for axis-aligned vectors: in (-180, 180]
Atan2Deg(dy, dx) ==
    CASE dy = 0 /\ dx >= 0 -> 0
      [] dy = 0 /\ dx < 0 -> 180
      [] dy > 0 -> 90
      [] OTHER -> -90

\* Rotate a point around a center
rotatePoint(point, center, angle) ==
    LET dx == point.x - center.x
        dy == point.y - center.y
    IN  Pt(center.x + dx * CosDeg(angle) - dy * SinDeg(angle),
           center.y + dx * SinDeg(angle) + dy * CosDeg(angle))

RECURSIVE SumX(_), SumY(_)
SumX(ps) == IF ps = <<>> THEN 0 ELSE Head(ps).x + SumX(Tail(ps))
SumY(ps) == IF ps = <<>> THEN 0 ELSE Head(ps).y + SumY(Tail(ps))

\* Get center point of an annotation
getAnnotationCenter(a) ==
    CASE a.type \in {"text", "callout"} -> a.position
      [] a.type = "draw" ->
            IF Len(a.points) > 0
            THEN Pt(SumX(a.points) \div Len(a.points), SumY(a.points) \div Len(a.points))
            ELSE ZeroPoint
      [] OTHER -> Pt((a.start.x + a.end.x) \div 2, (a.start.y + a.end.y) \div 2)

\* distanceToLineSegment(p, a, b) < r, without the square root
distanceToLineSegmentLt(p, a, b, r) ==
    LET dx == b.x - a.x
        dy == b.y - a.y
        lengthSq == dx * dx + dy * dy
        dot == (p.x - a.x) * dx + (p.y - a.y) * dy
    IN  IF lengthSq = 0 THEN DistSq(p, a) < r * r
        ELSE IF dot <= 0 THEN DistSq(p, a) < r * r
        ELSE IF dot >= lengthSq THEN DistSq(p, b) < r * r
        ELSE DistSq(p, a) * lengthSq - dot * dot < r * r * lengthSq

\* the rectangle test with the interior of a filled rectangle added
nearBorderOrInsideFill(a, point) ==
    LET minX == Min(a.start.x, a.end.x)
        maxX == Max(a.start.x, a.end.x)
        minY == Min(a.start.y, a.end.y)
        maxY == Max(a.start.y, a.end.y)
        nearLeft == Abs(point.x - minX) < hitPadding /\ point.y >= minY /\ point.y <= maxY
        nearRight == Abs(point.x - maxX) < hitPadding /\ point.y >= minY /\ point.y <= maxY
        nearTop == Abs(point.y - minY) < hitPadding /\ point.x >= minX /\ point.x <= maxX
        nearBottom == Abs(point.y - maxY) < hitPadding /\ point.x >= minX /\ point.x <= maxX
        inside == point.x >= minX /\ point.x <= maxX /\ point.y >= minY /\ point.y <= maxY
    IN  nearLeft \/ nearRight \/ nearTop \/ nearBottom \/ (a.fillColor # "" /\ inside)

\* Check if near the border (the rectangle case of findAnnotationAtPoint)
nearBorder(a, point) ==
    LET minX == Min(a.start.x, a.end.x)
        maxX == Max(a.start.x, a.end.x)
        minY == Min(a.start.y, a.end.y)
        maxY == Max(a.start.y, a.end.y)
        nearLeft == Abs(point.x - minX) < hitPadding /\ point.y >= minY /\ point.y <= maxY
        nearRight == Abs(point.x - maxX) < hitPadding /\ point.y >= minY /\ point.y <= maxY
        nearTop == Abs(point.y - minY) < hitPadding /\ point.x >= minX /\ point.x <= maxX
        nearBottom == Abs(point.y - maxY) < hitPadding /\ point.x >= minX /\ point.x <= maxX
    IN  nearLeft \/ nearRight \/ nearTop \/ nearBottom

\* the per-variant hit rule of findAnnotationAtPoint
HitRule(a, point) ==
    CASE a.type = "text" ->
            /\ a.text # ""
            /\ point.x >= a.position.x - textPadding
            /\ point.x <= a.position.x + TextWidth + textPadding
            /\ point.y >= a.position.y - textHeight - textPadding
            /\ point.y <= a.position.y + textPadding
      [] a.type = "rectangle" -> nearBorder(a, point)
      [] a.type = "circle" ->
            \* all lengths doubled: the ratio of the ellipse equation is unchanged
            LET rx2 == Abs(a.end.x - a.start.x)
                ry2 == Abs(a.end.y - a.start.y)
                dx2 == 2 * point.x - (a.start.x + a.end.x)
                dy2 == 2 * point.y - (a.start.y + a.end.y)
                num == Sq(dx2) * Sq(ry2) + Sq(dy2) * Sq(rx2)
                den == Sq(rx2) * Sq(ry2)
            IN  \* a zero radius gives NaN or Infinity, which compares false
                /\ rx2 # 0
                /\ ry2 # 0
                /\ 10 * Abs(num - den) < 3 * den
      [] a.type = "arrow" -> distanceToLineSegmentLt(point, a.start, a.end, hitPadding)
      [] a.type = "draw" ->
            \E i \in 1..Len(a.points) : DistSq(point, a.points[i]) < Sq(hitPadding)
      [] a.type = "callout" ->
            DistSq(point, a.position) <= Sq(calloutRadius + hitPadding)
      [] OTHER -> FALSE

\* Hit detection: the loop of findAnnotationAtPoint from index i downwards
\* (top-most first); the index of the first match, 0 for none
RECURSIVE FindAtFrom(_, _, _)
FindAtFrom(anns, point, i) ==
    IF i = 0 THEN 0
    ELSE IF HitRule(anns[i], point) THEN i
    ELSE FindAtFrom(anns, point, i - 1)

findAnnotationAtPointBottomFirst(anns, point) ==
    IF \E i \in 1..Len(anns) : HitRule(anns[i], point)
    THEN CHOOSE i \in 1..Len(anns) :
            /\ HitRule(anns[i], point)
            /\ \A j \in 1..(i - 1) : ~HitRule(anns[j], point)
    ELSE 0

findAnnotationAtPoint(anns, point) == FindAtFrom(anns, point, Len(anns))

\* annotations.find((a) => a.id === id): index of the first match, 0 for none
RECURSIVE FindByIdFrom(_, _, _)
FindByIdFrom(anns, id, i) ==
    IF i > Len(anns) THEN 0
    ELSE IF anns[i].id = id THEN i
    ELSE FindByIdFrom(anns, id, i + 1)

FindById(anns, id) == FindByIdFrom(anns, id, 1)

IsResizable(a) == a.type \in {"rectangle", "circle", "arrow"}

\* Get unrotated corner position for a handle
getLocalCorner(a, handle) ==
    LET minX == Min(a.start.x, a.end.x)
        maxX == Max(a.start.x, a.end.x)
        minY == Min(a.start.y, a.end.y)
        maxY == Max(a.start.y, a.end.y)
        midX == (minX + maxX) \div 2
        midY == (minY + maxY) \div 2
    IN  CASE handle = "nw" -> Pt(minX, minY)
          [] handle = "n" -> Pt(midX, minY)
          [] handle = "ne" -> Pt(maxX, minY)
          [] handle = "e" -> Pt(maxX, midY)
          [] handle = "se" -> Pt(maxX, maxY)
          [] handle = "s" -> Pt(midX, maxY)
          [] handle = "sw" -> Pt(minX, maxY)
          [] OTHER -> Pt(minX, midY)

\* Get resize handles for an annotation (only for resizable types): a
\* sequence of [handle, point], rotated with the annotation
getResizeHandles(a) ==
    LET local ==
            IF ~IsResizable(a) THEN <<>>
            ELSE IF a.type = "arrow"
            THEN <<[handle |-> "nw", point |-> a.start], [handle |-> "se", point |-> a.end]>>
            ELSE [i \in 1..8 |->
                    [handle |-> ResizeHandles[i], point |-> getLocalCorner(a, ResizeHandles[i])]]
        center == getAnnotationCenter(a)
    IN  IF a.rotation # 0
        THEN [i \in 1..Len(local) |->
                [handle |-> local[i].handle,
                 point |-> rotatePoint(local[i].point, center, a.rotation)]]
        ELSE local

\* Check if a point is on a resize handle: the first handle within
\* handleRadius, "none" for none
RECURSIVE FindHandleFrom(_, _, _)
FindHandleFrom(handles, point, i) ==
    IF i > Len(handles) THEN "none"
    ELSE IF DistSq(point, handles[i].point) <= Sq(handleRadius) THEN handles[i].handle
    ELSE FindHandleFrom(handles, point, i + 1)

findResizeHandleAtPoint(point, a) == FindHandleFrom(getResizeHandles(a), point, 1)

\* Get rotation handle position (above the top center of the annotation)
getRotationHandlePosition(a) ==
    LET minY == Min(a.start.y, a.end.y)
        midX == (a.start.x + a.end.x) \div 2
    IN  rotatePoint(Pt(midX, minY - handleDistance), getAnnotationCenter(a), a.rotation)

\* Check if a point is on the rotation handle
isPointOnRotationHandle(point, a) ==
    /\ IsResizable(a)
    /\ DistSq(point, getRotationHandlePosition(a)) <= Sq(rotationHandleRadius)

\* Get the anchor handle (opposite corner) for resize operations
getAnchorHandle(handle) ==
    CASE handle = "nw" -> "se" [] handle = "n" -> "s" [] handle = "ne" -> "sw"
      [] handle = "e" -> "w" [] handle = "se" -> "nw" [] handle = "s" -> "n"
      [] handle = "sw" -> "ne" [] OTHER -> "e"

\* Resize annotation based on handle drag
resizeAnnotation(a, handle, screenDelta) ==
    LET dx == screenDelta.x * CosDeg(-a.rotation) - screenDelta.y * SinDeg(-a.rotation)
        dy == screenDelta.x * SinDeg(-a.rotation) + screenDelta.y * CosDeg(-a.rotation)
    IN  IF a.type = "arrow"
        THEN CASE handle = "nw" -> [a EXCEPT !.start = Pt(a.start.x + dx, a.start.y + dy)]
               [] handle = "se" -> [a EXCEPT !.end = Pt(a.end.x + dx, a.end.y + dy)]
               [] OTHER -> a
        ELSE CASE handle = "nw" -> [a EXCEPT !.start = Pt(a.start.x + dx, a.start.y + dy)]
               [] handle = "n" -> [a EXCEPT !.start = Pt(a.start.x, a.start.y + dy)]
               [] handle = "ne" -> [a EXCEPT !.start = Pt(a.start.x, a.start.y + dy),
                                             !.end = Pt(a.end.x + dx, a.end.y)]
               [] handle = "e" -> [a EXCEPT !.end = Pt(a.end.x + dx, a.end.y)]
               [] handle = "se" -> [a EXCEPT !.end = Pt(a.end.x + dx, a.end.y + dy)]
               [] handle = "s" -> [a EXCEPT !.end = Pt(a.end.x, a.end.y + dy)]
               [] handle = "sw" -> [a EXCEPT !.start = Pt(a.start.x + dx, a.start.y),
                                             !.end = Pt(a.end.x, a.end.y + dy)]
               [] OTHER -> [a EXCEPT !.start = Pt(a.start.x + dx, a.start.y)]

\* Move annotation by delta
moveAnnotation(a, delta) ==
    CASE a.type \in {"text", "callout"} ->
            [a EXCEPT !.position = Pt(a.position.x + delta.x, a.position.y + delta.y)]
      [] a.type = "draw" ->
            [a EXCEPT !.points =
                [i \in 1..Len(a.points) |-> Pt(a.points[i].x + delta.x, a.points[i].y + delta.y)]]
      [] OTHER ->
            [a EXCEPT !.start = Pt(a.start.x + delta.x, a.start.y + delta.y),
                      !.end = Pt(a.end.x + delta.x, a.end.y + delta.y)]

\* Duplicate annotation with offset
duplicateAnnotation(a, now) ==
    [moveAnnotation(a, Pt(duplicateOffset, duplicateOffset)) EXCEPT !.id = NewId(now)]

FilterPointsOutsideOrOn(ps, point) ==
    SelectSeq(ps, LAMBDA q : DistSq(q, point) >= Sq(eraseRadius))

\* the points of a path farther than eraseRadius from the point
RECURSIVE FilterPoints(_, _)
FilterPoints(ps, point) ==
    IF ps = <<>> THEN <<>>
    ELSE IF DistSq(Head(ps), point) > Sq(eraseRadius)
         THEN <<Head(ps)>> \o FilterPoints(Tail(ps), point)
         ELSE FilterPoints(Tail(ps), point)

\* a stroke erase that keeps a path left without points
eraseStrokeAtPointKeepsEmpty(anns, point) ==
    [i \in 1..Len(anns) |->
        IF anns[i].type # "draw" THEN anns[i]
        ELSE [anns[i] EXCEPT !.points = FilterPoints(anns[i].points, point)]]

\* Erase stroke points near a given point (stroke eraser mode): the new list
RECURSIVE eraseStrokeAtPoint(_, _)
eraseStrokeAtPoint(anns, point) ==
    IF anns = <<>> THEN <<>>
    ELSE LET a == Head(anns)
             rest == eraseStrokeAtPoint(Tail(anns), point)
             newPoints == FilterPoints(a.points, point)
         IN  IF a.type # "draw" THEN <<a>> \o rest
             ELSE IF Len(newPoints) = 0 THEN rest
             ELSE <<[a EXCEPT !.points = newPoints]>> \o rest

\* prev.filter((a) => a.id !== id)
RECURSIVE RemoveById(_, _)
RemoveById(anns, id) ==
    IF anns = <<>> THEN <<>>
    ELSE IF Head(anns).id # id THEN <<Head(anns)>> \o RemoveById(Tail(anns), id)
    ELSE RemoveById(Tail(anns), id)

(***************************************************************************)
(* The component state: the useState cells of AnnotationOverlay, the text  *)
(* input element behind textInputRef and the clock behind Date.now().      *)
(* A null id is 0, a null handle is "none", a nullable object is a         *)
(* sequence of length 0 or 1.                                              *)
(***************************************************************************)
VARIABLES
    selectedTool, eraserMode,
    annotations, redoStack, isDrawing, currentAnnotation,
    textInput, calloutCounter,
    draggingId, dragOffset, selectedAnnotationId,
    resizingHandle, resizeStartPoint, originalAnnotation,
    isRotating, rotationStartAngle, isErasing, isShiftHeld,
    inputValue, inputFocused, focusPending, blurPending,
    clock, hist, movesLeft, pointer, lastEvent, probe,
    imageStatus, canvasTainted, exports, callbacks, overlayOpen,
    sessions, page

vars ==
    <<selectedTool, eraserMode, annotations, redoStack, isDrawing,
      currentAnnotation, textInput, calloutCounter, draggingId, dragOffset,
      selectedAnnotationId, resizingHandle, resizeStartPoint, originalAnnotation,
      isRotating, rotationStartAngle, isErasing, isShiftHeld, inputValue,
      inputFocused, focusPending, blurPending, clock, hist, movesLeft, pointer,
      lastEvent, probe, imageStatus, canvasTainted, exports, callbacks, overlayOpen,
      sessions, page>>

\* the image behind imageRef, the canvas it is drawn on, the calls of
\* getAnnotatedImage, the calls of the onCopy / onSave props and the mount
ioVars == <<imageStatus, canvasTainted, exports, callbacks, overlayOpen>>

\* the content script around the overlay: the overlay sessions it has opened
\* and the page it injects its buttons into
hostVars == <<sessions, page>>

\* the current component state as one record
State ==
    [selectedTool |-> selectedTool,
     eraserMode |-> eraserMode, annotations |-> annotations,
     redoStack |-> redoStack, isDrawing |-> isDrawing,
     currentAnnotation |-> currentAnnotation, textInput |-> textInput,
     calloutCounter |-> calloutCounter, draggingId |-> draggingId,
     dragOffset |-> dragOffset, selectedAnnotationId |-> selectedAnnotationId,
     resizingHandle |-> resizingHandle, resizeStartPoint |-> resizeStartPoint,
     originalAnnotation |-> originalAnnotation, isRotating |-> isRotating,
     rotationStartAngle |-> rotationStartAngle, isErasing |-> isErasing,
     isShiftHeld |-> isShiftHeld,
     inputValue |-> inputValue, inputFocused |-> inputFocused,
     focusPending |-> focusPending, blurPending |-> blurPending]

\* the state after construction (the useState initial values)
InitialState ==
    [selectedTool |-> "draw",
     eraserMode |-> "object", annotations |-> <<>>, redoStack |-> <<>>,
     isDrawing |-> FALSE, currentAnnotation |-> <<>>,
     textInput |-> [visible |-> FALSE, position |-> ZeroPoint],
     calloutCounter |-> InitialCalloutCounter, draggingId |-> 0,
     dragOffset |-> ZeroPoint, selectedAnnotationId |-> 0,
     resizingHandle |-> "none", resizeStartPoint |-> <<>>,
     originalAnnotation |-> <<>>, isRotating |-> FALSE,
     rotationStartAngle |-> 0, isErasing |-> FALSE, isShiftHeld |-> FALSE,
     inputValue |-> "", inputFocused |-> FALSE, focusPending |-> FALSE,
     blurPending |-> "none"]

(***************************************************************************)
(* Mouse handlers of the canvas.                                           *)
(***************************************************************************)
\* handleMouseDown, eraser tool
handleMouseDownEraser(s, point) ==
    IF s.eraserMode = "object"
    THEN LET hit == findAnnotationAtPoint(s.annotations, point)
         IN  IF hit # 0
             THEN [s EXCEPT !.annotations = RemoveById(s.annotations, s.annotations[hit].id)]
             ELSE s
    ELSE [s EXCEPT !.isErasing = TRUE,
                   !.annotations = eraseStrokeAtPoint(s.annotations, point)]

\* a rotation session that measures from the pressed angle alone
StartRotatingFromPress(s, a, point) ==
    LET center == getAnnotationCenter(a)
        startAngle == Atan2Deg(point.y - center.y, point.x - center.x)
    IN  [s EXCEPT !.isRotating = TRUE,
                  !.originalAnnotation = <<a>>,
                  !.rotationStartAngle = startAngle]

\* the rotate session a press on the rotation handle of annotation a starts
StartRotating(s, a, point) ==
    LET center == getAnnotationCenter(a)
        startAngle == Atan2Deg(point.y - center.y, point.x - center.x)
    IN  [s EXCEPT !.isRotating = TRUE,
                  !.originalAnnotation = <<a>>,
                  !.rotationStartAngle = startAngle - a.rotation]

\* a resize session that keeps no snapshot
StartResizingWithoutSnapshot(s, a, handle, point) ==
    [s EXCEPT !.resizingHandle = handle,
              !.resizeStartPoint = <<point>>,
              !.originalAnnotation = <<>>]

\* the resize session a press on a resize handle of annotation a starts
StartResizing(s, a, handle, point) ==
    [s EXCEPT !.resizingHandle = handle,
              !.resizeStartPoint = <<point>>,
              !.originalAnnotation = <<a>>]

\* a move-tool press that looks for an annotation body before the handles
handleMouseDownMoveBodyFirst(s, point) ==
    LET sel == IF s.selectedAnnotationId # 0
               THEN FindById(s.annotations, s.selectedAnnotationId) ELSE 0
        onRotation == sel # 0 /\ isPointOnRotationHandle(point, s.annotations[sel])
        handle == IF sel # 0 THEN findResizeHandleAtPoint(point, s.annotations[sel])
                  ELSE "none"
        hit == findAnnotationAtPoint(s.annotations, point)
    IN  IF hit # 0
        THEN LET center == getAnnotationCenter(s.annotations[hit])
             IN  [s EXCEPT !.selectedAnnotationId = s.annotations[hit].id,
                           !.draggingId = s.annotations[hit].id,
                           !.dragOffset = Pt(point.x - center.x, point.y - center.y)]
        ELSE IF onRotation THEN StartRotating(s, s.annotations[sel], point)
        ELSE IF handle # "none" THEN StartResizing(s, s.annotations[sel], handle, point)
        ELSE [s EXCEPT !.selectedAnnotationId = 0]

\* handleMouseDown, move tool
handleMouseDownMove(s, point) ==
    LET sel == IF s.selectedAnnotationId # 0
               THEN FindById(s.annotations, s.selectedAnnotationId) ELSE 0
        onRotation == sel # 0 /\ isPointOnRotationHandle(point, s.annotations[sel])
        handle == IF sel # 0 THEN findResizeHandleAtPoint(point, s.annotations[sel])
                  ELSE "none"
        hit == findAnnotationAtPoint(s.annotations, point)
    IN  IF onRotation THEN StartRotating(s, s.annotations[sel], point)
        ELSE IF handle # "none" THEN StartResizing(s, s.annotations[sel], handle, point)
        ELSE IF hit # 0
        THEN LET center == getAnnotationCenter(s.annotations[hit])
             IN  [s EXCEPT !.selectedAnnotationId = s.annotations[hit].id,
                           !.draggingId = s.annotations[hit].id,
                           !.dragOffset = Pt(point.x - center.x, point.y - center.y)]
        ELSE [s EXCEPT !.selectedAnnotationId = 0]

\* handleMouseDown, text tool: show the input and schedule its focus
handleMouseDownText(s, point) ==
    [s EXCEPT !.textInput = [visible |-> TRUE, position |-> point],
              !.focusPending = TRUE]

handleMouseDownCalloutNumberedByList(s, point, now) ==
    LET shown == Cardinality({i \in 1..Len(s.annotations) : s.annotations[i].type = "callout"})
        newAnnotation ==
            [Annotation(NewId(now), "callout", InitialColor, InitialBrushSize)
                EXCEPT !.position = point, !.calloutNumber = shown + 1]
    IN  [s EXCEPT !.annotations = Append(s.annotations, newAnnotation),
                  !.calloutCounter = s.calloutCounter + 1,
                  !.redoStack = <<>>]

\* handleMouseDown, callout tool: instant placement
handleMouseDownCallout(s, point, now) ==
    LET newAnnotation ==
            [Annotation(NewId(now), "callout", InitialColor, InitialBrushSize)
                EXCEPT !.position = point, !.calloutNumber = s.calloutCounter]
    IN  [s EXCEPT !.annotations = Append(s.annotations, newAnnotation),
                  !.calloutCounter = s.calloutCounter + 1,
                  !.redoStack = <<>>]

\* handleMouseDown, drawing tools: start an in-progress annotation
handleMouseDownDraw(s, point, now) ==
    LET base == Annotation(NewId(now), s.selectedTool, InitialColor, InitialBrushSize)
        newAnnotation ==
            IF s.selectedTool = "draw" THEN [base EXCEPT !.points = <<point>>]
            ELSE [base EXCEPT !.start = point, !.end = point]
    IN  [s EXCEPT !.isDrawing = TRUE, !.currentAnnotation = <<newAnnotation>>]

handleMouseDown(s, point, now) ==
    CASE s.selectedTool = "eraser" -> handleMouseDownEraser(s, point)
      [] s.selectedTool = "move" -> handleMouseDownMove(s, point)
      [] s.selectedTool = "text" -> handleMouseDownText(s, point)
      [] s.selectedTool = "callout" -> handleMouseDownCallout(s, point, now)
      [] OTHER -> handleMouseDownDraw(s, point, now)

\* a constraint to the shorter of the two sides
constrainPointToShorter(start, end, type) ==
    LET dx == end.x - start.x
        dy == end.y - start.y
        size == Min(Abs(dx), Abs(dy))
        SignOrOne(d) == IF d < 0 THEN -1 ELSE 1
    IN  IF type \in {"rectangle", "circle"}
        THEN Pt(start.x + size * SignOrOne(dx), start.y + size * SignOrOne(dy))
        ELSE end

\* Constrain point for Shift+drag (perfect squares/circles, 45 degree angles);
\* an arrow is modelled in the directions that are exact in integers, where
\* the snapped end is the end itself
constrainPoint(start, end, type) ==
    LET dx == end.x - start.x
        dy == end.y - start.y
        size == Max(Abs(dx), Abs(dy))
        \* Math.sign(d || 1)
        SignOrOne(d) == IF d < 0 THEN -1 ELSE 1
    IN  CASE type \in {"rectangle", "circle"} ->
                Pt(start.x + size * SignOrOne(dx), start.y + size * SignOrOne(dy))
          [] type = "arrow" /\ (AxisAligned(dx, dy) \/ Abs(dx) = Abs(dy)) -> end
          [] type \notin {"rectangle", "circle", "arrow"} -> end

handleMouseMove(s, point) ==
    IF s.isErasing /\ s.selectedTool = "eraser" /\ s.eraserMode = "stroke"
    THEN [s EXCEPT !.annotations = eraseStrokeAtPoint(s.annotations, point)]
    ELSE IF s.isRotating \/ s.resizingHandle # "none" THEN s
    ELSE IF s.draggingId # 0
    THEN LET idx == FindById(s.annotations, s.draggingId)
         IN  IF idx # 0
             THEN LET center == getAnnotationCenter(s.annotations[idx])
                      delta == Pt(point.x - s.dragOffset.x - center.x,
                                  point.y - s.dragOffset.y - center.y)
                      Moved(a) == moveAnnotation(a, delta)
                  IN  [s EXCEPT !.annotations = [i \in 1..Len(s.annotations) |-> IF s.annotations[i].id = s.draggingId THEN Moved(s.annotations[i]) ELSE s.annotations[i]]]
             ELSE s
    ELSE IF ~s.isDrawing \/ s.currentAnnotation = <<>> THEN s
    ELSE LET cur == s.currentAnnotation[1]
             constrainedPoint == IF s.isShiftHeld THEN constrainPoint(cur.start, point, cur.type)
                                 ELSE point
         IN  IF cur.type = "draw"
             THEN [s EXCEPT !.currentAnnotation = <<[cur EXCEPT !.points = Append(cur.points, point)]>>]
             ELSE [s EXCEPT !.currentAnnotation = <<[cur EXCEPT !.end = constrainedPoint]>>]

handleMouseUpKeepErasing(s) ==
    IF s.isRotating \/ s.resizingHandle # "none" THEN s
    ELSE IF s.draggingId # 0 THEN [s EXCEPT !.draggingId = 0]
    ELSE IF s.isDrawing /\ s.currentAnnotation # <<>>
    THEN [s EXCEPT !.annotations = Append(s.annotations, s.currentAnnotation[1]),
                   !.redoStack = <<>>, !.currentAnnotation = <<>>, !.isDrawing = FALSE]
    ELSE [s EXCEPT !.isDrawing = FALSE]

handleMouseUpKeepRedo(s) ==
    IF s.isErasing THEN [s EXCEPT !.isErasing = FALSE]
    ELSE IF s.isRotating \/ s.resizingHandle # "none" THEN s
    ELSE IF s.draggingId # 0 THEN [s EXCEPT !.draggingId = 0]
    ELSE IF s.isDrawing /\ s.currentAnnotation # <<>>
    THEN [s EXCEPT !.annotations = Append(s.annotations, s.currentAnnotation[1]),
                   !.currentAnnotation = <<>>, !.isDrawing = FALSE]
    ELSE [s EXCEPT !.isDrawing = FALSE]

handleMouseUp(s) ==
    IF s.isErasing THEN [s EXCEPT !.isErasing = FALSE]
    ELSE IF s.isRotating \/ s.resizingHandle # "none" THEN s
    ELSE IF s.draggingId # 0 THEN [s EXCEPT !.draggingId = 0]
    ELSE IF s.isDrawing /\ s.currentAnnotation # <<>>
    THEN [s EXCEPT !.annotations = Append(s.annotations, s.currentAnnotation[1]),
                   !.redoStack = <<>>, !.currentAnnotation = <<>>, !.isDrawing = FALSE]
    ELSE [s EXCEPT !.isDrawing = FALSE]

(***************************************************************************)
(* Window-level mouse handlers, registered while resizing or rotating.     *)
(***************************************************************************)
\* a / b cut down to an integer rather than rounded
RoundDivDown(a, b) == a \div b

\* Math.round(a / b) for integers a and b > 0: the nearest integer, a half
\* rounded up
RoundDiv(a, b) == (2 * a + b) \div (2 * b)

WindowHandlersRegistered(s) == s.resizingHandle # "none" \/ s.isRotating

handleWindowMouseMove(s, point) ==
    LET orig == s.originalAnnotation[1]
        center == getAnnotationCenter(orig)
        currentAngle == Atan2Deg(point.y - center.y, point.x - center.x)
        unsnapped == currentAngle - s.rotationStartAngle
        newRotation == IF s.isShiftHeld THEN RoundDiv(unsnapped, snapAngle) * snapAngle
                       ELSE unsnapped
        Rotated(a) == [a EXCEPT !.rotation = newRotation]
        s1 == IF s.isRotating /\ s.originalAnnotation # <<>>
              THEN [s EXCEPT !.annotations = [i \in 1..Len(s.annotations) |-> IF s.annotations[i].id = orig.id THEN Rotated(s.annotations[i]) ELSE s.annotations[i]]]
              ELSE s
        screenDelta == Pt(point.x - s.resizeStartPoint[1].x, point.y - s.resizeStartPoint[1].y)
        Resized(a) == resizeAnnotation(orig, s.resizingHandle, screenDelta)
    IN  IF s.resizingHandle # "none" /\ s.resizeStartPoint # <<>> /\ s.originalAnnotation # <<>>
        THEN [s1 EXCEPT !.annotations = [i \in 1..Len(s1.annotations) |-> IF s1.annotations[i].id = orig.id THEN Resized(s1.annotations[i]) ELSE s1.annotations[i]]]
        ELSE s1

handleWindowMouseUp(s) ==
    LET s1 == IF s.isRotating
              THEN [s EXCEPT !.isRotating = FALSE, !.originalAnnotation = <<>>]
              ELSE s
    IN  IF s.resizingHandle # "none"
        THEN [s1 EXCEPT !.resizingHandle = "none", !.resizeStartPoint = <<>>,
                        !.originalAnnotation = <<>>]
        ELSE s1

(***************************************************************************)
(* Text input handlers.  refAttached: textInputRef.current is the input    *)
(* element (it is null once the element is unmounted).                     *)
(***************************************************************************)
submitTextKeepValue(s, now, refAttached) ==
    LET newAnnotation ==
            [Annotation(NewId(now), "text", InitialColor, TextStrokeWidth)
                EXCEPT !.text = s.inputValue, !.position = s.textInput.position]
        closed == [visible |-> FALSE, position |-> ZeroPoint]
    IN  IF refAttached /\ s.inputValue # ""
        THEN [s EXCEPT !.annotations = Append(s.annotations, newAnnotation),
                       !.redoStack = <<>>,
                       !.textInput = closed]
        ELSE [s EXCEPT !.textInput = closed]

submitText(s, now, refAttached) ==
    LET newAnnotation ==
            [Annotation(NewId(now), "text", InitialColor, TextStrokeWidth)
                EXCEPT !.text = s.inputValue, !.position = s.textInput.position]
        closed == [visible |-> FALSE, position |-> ZeroPoint]
    IN  IF refAttached /\ s.inputValue # ""
        THEN [s EXCEPT !.annotations = Append(s.annotations, newAnnotation),
                       !.redoStack = <<>>,
                       !.inputValue = "",
                       !.textInput = closed]
        ELSE [s EXCEPT !.textInput = closed]

handleTextKeyDown(s, key, now) ==
    CASE key = "Enter" -> submitText(s, now, TRUE)
      [] key = "Escape" ->
            [s EXCEPT !.textInput = [visible |-> FALSE, position |-> ZeroPoint],
                      !.inputValue = ""]
      [] OTHER -> s

handleTextBlur(s, now, refAttached) == submitText(s, now, refAttached)

(***************************************************************************)
(* Toolbar handlers.                                                       *)
(***************************************************************************)
handleUndoPushFront(s) ==
    IF Len(s.annotations) = 0 THEN s
    ELSE [s EXCEPT !.redoStack = <<s.annotations[Len(s.annotations)]>> \o s.redoStack,
                   !.annotations = SubSeq(s.annotations, 1, Len(s.annotations) - 1)]

handleUndo(s) ==
    IF Len(s.annotations) = 0 THEN s
    ELSE [s EXCEPT !.redoStack = Append(s.redoStack, s.annotations[Len(s.annotations)]),
                   !.annotations = SubSeq(s.annotations, 1, Len(s.annotations) - 1)]

handleRedoClearsStack(s) ==
    IF Len(s.redoStack) = 0 THEN s
    ELSE [s EXCEPT !.annotations = Append(s.annotations, s.redoStack[Len(s.redoStack)]),
                   !.redoStack = <<>>]

handleRedo(s) ==
    IF Len(s.redoStack) = 0 THEN s
    ELSE [s EXCEPT !.annotations = Append(s.annotations, s.redoStack[Len(s.redoStack)]),
                   !.redoStack = SubSeq(s.redoStack, 1, Len(s.redoStack) - 1)]

handleDuplicateClearsRedoFirst(s, now) ==
    LET idx == IF s.selectedAnnotationId = 0 THEN 0
               ELSE FindById(s.annotations, s.selectedAnnotationId)
        duplicated == duplicateAnnotation(s.annotations[idx], now)
    IN  IF idx = 0 THEN [s EXCEPT !.redoStack = <<>>]
        ELSE [s EXCEPT !.annotations = Append(s.annotations, duplicated),
                       !.selectedAnnotationId = duplicated.id,
                       !.redoStack = <<>>]

\* Handle duplicate selected annotation (Ctrl+D)
handleDuplicate(s, now) ==
    LET idx == IF s.selectedAnnotationId = 0 THEN 0
               ELSE FindById(s.annotations, s.selectedAnnotationId)
        duplicated == duplicateAnnotation(s.annotations[idx], now)
    IN  IF idx = 0 THEN s
        ELSE [s EXCEPT !.annotations = Append(s.annotations, duplicated),
                       !.selectedAnnotationId = duplicated.id,
                       !.redoStack = <<>>]

handleClearAll(s) == [s EXCEPT !.annotations = <<>>]

\* onToolChange={setSelectedTool}
setSelectedTool(s, tool) == [s EXCEPT !.selectedTool = tool]

\* toolbar availability flags
canUndo(s) == Len(s.annotations) > 0
canRedo(s) == Len(s.redoStack) > 0
canClear(s) == Len(s.annotations) > 0
canDuplicate(s) == s.selectedAnnotationId # 0

(***************************************************************************)
(* The text input element.                                                 *)
(***************************************************************************)
\* the element follows textInput.visible: a newly mounted element is empty,
\* an unmounted element loses the focus, and the browser may still deliver
\* a blur for an element that was focused when it was removed
SyncInput(s, t) ==
    IF ~s.textInput.visible /\ t.textInput.visible
    THEN [t EXCEPT !.inputValue = ""]
    ELSE IF s.textInput.visible /\ ~t.textInput.visible
    THEN [t EXCEPT !.inputFocused = FALSE, !.focusPending = FALSE,
                   !.blurPending = IF s.inputFocused THEN "maybe" ELSE "none"]
    ELSE t

\* a press outside the focused input takes the focus away: its blur follows
BlurFollows(s, t) ==
    IF s.inputFocused THEN [t EXCEPT !.blurPending = "certain"] ELSE t

(***************************************************************************)
(* Bounds on the states explored.                                          *)
(***************************************************************************)
CoordOK(p) == p.x \in 0..CanvasSize /\ p.y \in 0..CanvasSize

AnnotationBounded(a) ==
    /\ CoordOK(a.start) /\ CoordOK(a.end) /\ CoordOK(a.position)
    /\ \A i \in 1..Len(a.points) : CoordOK(a.points[i])
    /\ Len(a.points) <= MaxPathLen
    /\ Abs(a.rotation) <= MaxRotation

Bounded(t) ==
    /\ Len(t.annotations) + Len(t.redoStack) + Len(t.currentAnnotation)
          + (IF t.textInput.visible THEN 1 ELSE 0) <= MaxAnnotations
    /\ \A i \in 1..Len(t.annotations) : AnnotationBounded(t.annotations[i])
    /\ \A i \in 1..Len(t.currentAnnotation) : AnnotationBounded(t.currentAnnotation[i])
    /\ t.calloutCounter <= InitialCalloutCounter + MaxCallouts

\* the pointer is at an exactly representable angle from the centre of a
RotationInputOK(a, point) ==
    LET center == getAnnotationCenter(a)
    IN  AxisAligned(point.x - center.x, point.y - center.y)

(***************************************************************************)
(* History of the run, for the undo/redo round trip: phase "c" while only  *)
(* commits have happened since the empty list, "u" during the undos that   *)
(* follow (k of them, snap the list they started from), "r" during the     *)
(* redos that follow Len(snap) undos, "x" otherwise.  A followed run takes  *)
(* no step that leaves this script.                                        *)
(*                                                                         *)
(* lastEvent is the event of the latest step in the runs that record it,   *)
(* "untracked" throughout in the others.                                   *)
(***************************************************************************)
HistOff == [phase |-> "x", k |-> 0, snap |-> <<>>]

\* probe holds the arguments and the result of one call of a geometry
\* function examined on its own; no call is examined in the component's runs
NoProbe == [fn |-> "none"]

HistNext(ev, s, t) ==
    IF t.annotations = s.annotations /\ t.redoStack = s.redoStack THEN hist
    ELSE IF ev = "undo"
    THEN CASE hist.phase = "c" -> [phase |-> "u", k |-> 1, snap |-> s.annotations]
           [] hist.phase = "u" -> [hist EXCEPT !.k = hist.k + 1]
           [] OTHER -> HistOff
    ELSE IF ev = "redo"
    THEN CASE hist.phase = "u" /\ hist.k = Len(hist.snap) -> [hist EXCEPT !.phase = "r", !.k = 1]
           [] hist.phase = "r" -> [hist EXCEPT !.k = hist.k + 1]
           [] OTHER -> HistOff
    ELSE IF /\ hist.phase = "c"
            /\ Len(t.annotations) = Len(s.annotations) + 1
            /\ SubSeq(t.annotations, 1, Len(s.annotations)) = s.annotations
    THEN hist
    ELSE HistOff

\* the step of event ev that takes the component to state t
Step(ev, t) ==
    /\ overlayOpen
    /\ Bounded(t)
    /\ selectedTool' = t.selectedTool
    /\ eraserMode' = t.eraserMode
    /\ annotations' = t.annotations
    /\ redoStack' = t.redoStack
    /\ isDrawing' = t.isDrawing
    /\ currentAnnotation' = t.currentAnnotation
    /\ textInput' = t.textInput
    /\ calloutCounter' = t.calloutCounter
    /\ draggingId' = t.draggingId
    /\ dragOffset' = t.dragOffset
    /\ selectedAnnotationId' = t.selectedAnnotationId
    /\ resizingHandle' = t.resizingHandle
    /\ resizeStartPoint' = t.resizeStartPoint
    /\ originalAnnotation' = t.originalAnnotation
    /\ isRotating' = t.isRotating
    /\ rotationStartAngle' = t.rotationStartAngle
    /\ isErasing' = t.isErasing
    /\ isShiftHeld' = t.isShiftHeld
    /\ inputValue' = t.inputValue
    /\ inputFocused' = t.inputFocused
    /\ focusPending' = t.focusPending
    /\ blurPending' = t.blurPending
    /\ hist' = HistNext(ev, State, t)
    /\ hist.phase # "x" => hist'.phase # "x"
    /\ pointer' = CASE ev \in {"mousedown", "mousemove", "mouseup"} -> "canvas"
                     [] ev = "mouseleave" -> "left"
                     [] ev \in {"handledown", "windowmove", "windowup", "click"} -> "off"
                     [] OTHER -> pointer
    /\ movesLeft' = IF ev \in {"mousemove", "windowmove"} /\ t.annotations # annotations
                     THEN movesLeft - 1 ELSE movesLeft
    /\ movesLeft' >= 0
    /\ lastEvent' = IF lastEvent = "untracked" THEN lastEvent ELSE ev
    /\ probe' = IF /\ probe.fn = "textInput" /\ ev = "mousedown" /\ t.textInput.visible
                    /\ (~textInput.visible \/ inputValue = "")
                 THEN [probe EXCEPT !.openedAt = <<t.textInput.position>>]
                 ELSE probe
    /\ UNCHANGED <<ioVars, hostVars>>

\* content.tsx before any export: the first overlay session is mounted.
\* startedIn[i] is the session whose toolbar started export i, finished the
\* exports whose handleCopy has run to its end, and closedBy the last
\* closeAnnotation made by an export that found an overlay open: the session
\* the export was started in and the session it closed.
InitialSessions ==
    [current |-> 1, startedIn |-> <<>>, finished |-> {}, closedBy |-> <<>>]

\* the page before the content script's main(): no image container and no
\* lightbox yet, no observer callback queued
InitialPage ==
    [started |-> FALSE,
     containers |-> [c \in 1..MaxContainers |-> [present |-> FALSE, buttons |-> 0]],
     lightbox |-> [present |-> FALSE, img |-> FALSE, buttons |-> 0],
     pending |-> FALSE,
     mutations |-> 0]

InitialComponent ==
    /\ selectedTool = InitialState.selectedTool
    /\ eraserMode = InitialState.eraserMode
    /\ annotations = InitialState.annotations
    /\ redoStack = InitialState.redoStack
    /\ isDrawing = InitialState.isDrawing
    /\ currentAnnotation = InitialState.currentAnnotation
    /\ textInput = InitialState.textInput
    /\ calloutCounter = InitialState.calloutCounter
    /\ draggingId = InitialState.draggingId
    /\ dragOffset = InitialState.dragOffset
    /\ selectedAnnotationId = InitialState.selectedAnnotationId
    /\ resizingHandle = InitialState.resizingHandle
    /\ resizeStartPoint = InitialState.resizeStartPoint
    /\ originalAnnotation = InitialState.originalAnnotation
    /\ isRotating = InitialState.isRotating
    /\ rotationStartAngle = InitialState.rotationStartAngle
    /\ isErasing = InitialState.isErasing
    /\ isShiftHeld = InitialState.isShiftHeld
    /\ inputValue = InitialState.inputValue
    /\ inputFocused = InitialState.inputFocused
    /\ focusPending = InitialState.focusPending
    /\ blurPending = InitialState.blurPending
    /\ clock = 1
    /\ pointer = "off"
    /\ imageStatus = "loading"
    /\ canvasTainted = FALSE
    /\ exports = <<>>
    /\ callbacks = <<>>
    /\ overlayOpen = TRUE
    /\ sessions = InitialSessions
    /\ page = InitialPage

Init ==
    /\ InitialComponent
    /\ hist = HistOff
    /\ movesLeft = MaxMoves
    /\ lastEvent = "untracked"
    /\ probe = NoProbe

\* the run whose commits, undos and redos are followed from the empty list
InitRoundTrip ==
    /\ InitialComponent
    /\ hist = [phase |-> "c", k |-> 0, snap |-> <<>>]
    /\ movesLeft = MaxMoves
    /\ lastEvent = "untracked"
    /\ probe = NoProbe

\* the run that records where the text input was opened: openedAt is the
\* point of the press that made the input visible, or that moved it while
\* nothing was typed in it
InitText ==
    /\ InitialComponent
    /\ hist = HistOff
    /\ movesLeft = 0
    /\ lastEvent = "untracked"
    /\ probe = [fn |-> "textInput", openedAt |-> <<>>]

\* the run whose pointer moves leave the committed geometry alone
InitSessions ==
    /\ InitialComponent
    /\ hist = HistOff
    /\ movesLeft = 0
    /\ lastEvent = "untracked"
    /\ probe = NoProbe

(***************************************************************************)
(* The events.                                                             *)
(***************************************************************************)
\* Date.now() advances
Tick ==
    /\ clock < MaxClock
    /\ clock' = clock + 1
    /\ UNCHANGED <<selectedTool, eraserMode, annotations, redoStack,
                   isDrawing, currentAnnotation, textInput, calloutCounter, draggingId,
                   dragOffset, selectedAnnotationId, resizingHandle, resizeStartPoint,
                   originalAnnotation, isRotating, rotationStartAngle, isErasing,
                   isShiftHeld, inputValue, inputFocused, focusPending, blurPending,
                   hist, movesLeft, pointer, lastEvent, probe, ioVars, hostVars>>

\* no blur of the text input is waiting to be delivered
Idle == blurPending = "none"

\* the pointer is not over the canvas: over a handle element, the toolbar or
\* the page ("left": it has just left the canvas)
OffCanvas == pointer # "canvas"

\* mousedown on the canvas (any button), at one of the points
CanvasMouseDownAt(points) ==
    \E point \in points :
        LET sel == FindById(annotations, selectedAnnotationId) IN
        /\ Idle
        /\ (selectedTool = "move" /\ selectedAnnotationId # 0 /\ sel # 0
              /\ isPointOnRotationHandle(point, annotations[sel]))
             => RotationInputOK(annotations[sel], point)
        /\ Step("mousedown",
                BlurFollows(State, SyncInput(State, handleMouseDown(State, point, clock))))
        /\ UNCHANGED clock

CanvasMouseDown == CanvasMouseDownAt(PressPoints)

\* a press anywhere the pointer can be
TextMouseDown == CanvasMouseDownAt(CanvasPoints)

\* mousedown on a resize handle element of the selected annotation
ResizeHandleMouseDown ==
    \E clickPoint \in HandlePoints :
        LET sel == FindById(annotations, selectedAnnotationId)
            handles == getResizeHandles(annotations[sel])
        IN  /\ Idle /\ OffCanvas
            /\ selectedTool = "move" /\ selectedAnnotationId # 0 /\ sel # 0
            /\ \E i \in 1..Len(handles) :
                  /\ clickPoint.x - handles[i].point.x \in -5..9
                  /\ clickPoint.y - handles[i].point.y \in -5..9
                  /\ Step("handledown",
                          StartResizing(State, annotations[sel], handles[i].handle, clickPoint))
            /\ UNCHANGED clock

\* mousedown on the rotation handle element of the selected annotation
RotationHandleMouseDown ==
    \E clickPoint \in HandlePoints :
        LET sel == FindById(annotations, selectedAnnotationId)
            pos == getRotationHandlePosition(annotations[sel])
        IN  /\ Idle /\ OffCanvas
            /\ selectedTool = "move" /\ selectedAnnotationId # 0 /\ sel # 0
            /\ IsResizable(annotations[sel])
            /\ clickPoint.x - pos.x \in -7..11
            /\ clickPoint.y - pos.y \in -7..11
            /\ RotationInputOK(annotations[sel], clickPoint)
            /\ Step("handledown", StartRotating(State, annotations[sel], clickPoint))
            /\ UNCHANGED clock

\* the window-level mousemove handler runs after the canvas handler when it
\* is registered
WindowMove(s, t, point) ==
    IF WindowHandlersRegistered(s) THEN handleWindowMouseMove(t, point) ELSE t

WindowUp(s, t) ==
    IF WindowHandlersRegistered(s) THEN handleWindowMouseUp(t) ELSE t

RotateMoveOK(point) ==
    (isRotating /\ originalAnnotation # <<>>) => RotationInputOK(originalAnnotation[1], point)

\* mousemove over the canvas
CanvasMouseMove ==
    \E point \in CanvasPoints :
        /\ Idle
        /\ RotateMoveOK(point)
        /\ Step("mousemove", WindowMove(State, handleMouseMove(State, point), point))
        /\ UNCHANGED clock

\* mousemove outside the canvas during a resize or rotate session
WindowMouseMove ==
    \E point \in WindowPoints :
        /\ Idle /\ OffCanvas
        /\ WindowHandlersRegistered(State)
        /\ RotateMoveOK(point)
        /\ Step("windowmove", handleWindowMouseMove(State, point))
        /\ UNCHANGED clock

\* mouseup over the canvas
CanvasMouseUp ==
    /\ Idle
    /\ Step("mouseup", WindowUp(State, handleMouseUp(State)))
    /\ UNCHANGED clock

\* mouseup outside the canvas during a resize or rotate session
WindowMouseUp ==
    /\ Idle /\ OffCanvas
    /\ WindowHandlersRegistered(State)
    /\ Step("windowup", handleWindowMouseUp(State))
    /\ UNCHANGED clock

\* onMouseLeave of the canvas
CanvasMouseLeave ==
    /\ Idle
    /\ pointer = "canvas"
    /\ Step("mouseleave", handleMouseUp(State))
    /\ UNCHANGED clock

\* toolbar and keyboard shortcuts act only while the text input has no focus
ToolbarEnabled == Idle /\ ~inputFocused

ToolChange(tools) ==
    \E tool \in tools :
        /\ ToolbarEnabled
        /\ Step("tool", setSelectedTool(State, tool))
        /\ UNCHANGED clock

\* the mode buttons, shown for the eraser tool
EraserModeChange ==
    \E mode \in {"object", "stroke"} :
        /\ ToolbarEnabled /\ OffCanvas
        /\ selectedTool = "eraser"
        /\ Step("click", [State EXCEPT !.eraserMode = mode])
        /\ UNCHANGED clock

Undo ==
    /\ ToolbarEnabled
    /\ canUndo(State)
    /\ Step("undo", handleUndo(State))
    /\ UNCHANGED clock

Redo ==
    /\ ToolbarEnabled
    /\ canRedo(State)
    /\ Step("redo", handleRedo(State))
    /\ UNCHANGED clock

Duplicate ==
    /\ ToolbarEnabled
    /\ canDuplicate(State)
    /\ Step("duplicate", handleDuplicate(State, clock))
    /\ UNCHANGED clock

\* the Clear All button
ClearAll ==
    /\ ToolbarEnabled /\ OffCanvas
    /\ canClear(State)
    /\ Step("click", handleClearAll(State))
    /\ UNCHANGED clock

\* setTimeout(() => textInputRef.current?.focus(), 0)
FocusTimer ==
    /\ Idle
    /\ focusPending
    /\ Step("focus", [State EXCEPT !.focusPending = FALSE,
                                   !.inputFocused = textInput.visible])
    /\ UNCHANGED clock

\* the user types into the focused input
InputType ==
    \E value \in InputValues :
        /\ Idle
        /\ inputFocused
        /\ Step("type", [State EXCEPT !.inputValue = value])
        /\ UNCHANGED clock

\* onKeyDown of the focused input
TextKey(key) ==
    /\ Idle
    /\ inputFocused
    /\ Step("key" \o key, SyncInput(State, handleTextKeyDown(State, key, clock)))
    /\ UNCHANGED clock

TextKeyDown == \E key \in {"Enter", "Escape"} : TextKey(key)

\* the focused input loses the focus (a click elsewhere, the window)
TextBlur ==
    /\ blurPending # "maybe"
    /\ inputFocused
    /\ Step("blur", [SyncInput(State, handleTextBlur(State, clock, TRUE))
                        EXCEPT !.blurPending = "none", !.inputFocused = FALSE])
    /\ UNCHANGED clock

\* the blur of an input removed while focused, delivered during the removal
TextBlurAfterClose ==
    \E refAttached \in BOOLEAN :
        /\ blurPending = "maybe"
        /\ Step("blur", [handleTextBlur(State, clock, refAttached)
                            EXCEPT !.blurPending = "none"])
        /\ UNCHANGED clock

\* ... or not delivered
BlurDropped ==
    /\ blurPending = "maybe"
    /\ Step("noblur", [State EXCEPT !.blurPending = "none"])
    /\ UNCHANGED clock

(***************************************************************************)
(* The editing scenario: every way to commit (pointer up or leave, callout,*)
(* text, duplicate) with undo and redo; the pointer stays where it was     *)
(* pressed.                                                                *)
(***************************************************************************)
Next ==
    \/ Tick
    \/ ToolChange(EditTools)
    \/ CanvasMouseDown
    \/ CanvasMouseMove
    \/ CanvasMouseUp
    \/ CanvasMouseLeave
    \/ Undo
    \/ Redo
    \/ Duplicate
    \/ FocusTimer
    \/ InputType
    \/ TextKeyDown
    \/ TextBlur
    \/ TextBlurAfterClose
    \/ BlurDropped

Spec == Init /\ [][Next]_vars

\* the same scenario, followed through commits, undos and redos
SpecRoundTrip == InitRoundTrip /\ [][Next]_vars

(***************************************************************************)
(* The erasing scenario: freehand strokes, both eraser modes, Clear All,   *)
(* undo and redo.                                                          *)
(***************************************************************************)
NextErase ==
    \/ Tick
    \/ ToolChange(EraseTools)
    \/ EraserModeChange
    \/ CanvasMouseDown
    \/ CanvasMouseMove
    \/ CanvasMouseUp
    \/ CanvasMouseLeave
    \/ Undo
    \/ Redo
    \/ ClearAll

SpecErase == Init /\ [][NextErase]_vars

(***************************************************************************)
(* The gesture scenario: how the pointer sessions start and end on the     *)
(* canvas, on the handle elements and at window level.                     *)
(***************************************************************************)
NextSessions ==
    \/ Tick
    \/ ToolChange(SessionTools)
    \/ EraserModeChange
    \/ CanvasMouseDown
    \/ ResizeHandleMouseDown
    \/ RotationHandleMouseDown
    \/ CanvasMouseMove
    \/ WindowMouseMove
    \/ CanvasMouseUp
    \/ WindowMouseUp
    \/ CanvasMouseLeave

SpecSessions == InitSessions /\ [][NextSessions]_vars

(***************************************************************************)
(* The text scenario: the input is opened by a press, focused, typed into  *)
(* and closed by a key, by a blur or by a further press, at any point.     *)
(***************************************************************************)
NextText ==
    \/ Tick
    \/ ToolChange({"text"})
    \/ TextMouseDown
    \/ FocusTimer
    \/ InputType
    \/ TextKeyDown
    \/ TextBlur
    \/ TextBlurAfterClose
    \/ BlurDropped
    \/ Undo

SpecText == InitText /\ [][NextText]_vars

\* the run that records its latest event
InitTracked ==
    /\ InitialComponent
    /\ hist = HistOff
    /\ movesLeft = MaxMoves
    /\ lastEvent = "init"
    /\ probe = NoProbe

(***************************************************************************)
(* The transform scenario: a shape is dragged, resized, rotated and        *)
(* duplicated while undo, redo and Clear All change the list under it.     *)
(***************************************************************************)
NextTransform ==
    \/ ToolChange(TransformTools)
    \/ CanvasMouseDown
    \/ RotationHandleMouseDown
    \/ CanvasMouseMove
    \/ WindowMouseMove
    \/ CanvasMouseUp
    \/ WindowMouseUp
    \/ CanvasMouseLeave
    \/ Undo
    \/ Redo
    \/ Duplicate
    \/ ClearAll

SpecTransform == InitTracked /\ [][NextTransform]_vars

(***************************************************************************)
(* The geometry functions on their own: one call of resizeAnnotation,      *)
(* findAnnotationAtPoint or eraseStrokeAtPoint on arguments drawn from the *)
(* sets below; the component stays as constructed.                         *)
(***************************************************************************)
componentVars ==
    <<selectedTool, eraserMode, annotations, redoStack, isDrawing,
      currentAnnotation, textInput, calloutCounter, draggingId, dragOffset,
      selectedAnnotationId, resizingHandle, resizeStartPoint, originalAnnotation,
      isRotating, rotationStartAngle, isErasing, isShiftHeld, inputValue,
      inputFocused, focusPending, blurPending, clock, hist, movesLeft, pointer,
      lastEvent>>

\* a shape of the given corners: start and end may be any two opposite ones
Shape(type, start, end, rotation) ==
    [Annotation(1, type, InitialColor, InitialBrushSize)
        EXCEPT !.start = start, !.end = end, !.rotation = rotation]

\* rectangles and ellipses over x 8..24, y 8..16, drawn in each of the four
\* directions, unrotated and rotated by 90 degrees
ResizeShapes ==
    {Shape(type, Pt(sx, sy), Pt(32 - sx, 24 - sy), rotation) :
        type \in {"rectangle", "circle"}, sx \in {8, 24}, sy \in {8, 16},
        rotation \in {0, 90}}

\* pointer deltas of a resize gesture: short of the anchor and past it
ResizeDeltas == {Pt(4, 0), Pt(0, 4), Pt(-4, 2), Pt(20, 12)}

ResizeCalls ==
    {[fn |-> "resizeAnnotation", annotation |-> a, handle |-> ResizeHandles[h],
      screenDelta |-> d, result |-> <<>>] :
        a \in ResizeShapes, h \in 1..8, d \in ResizeDeltas}

CallResizeAnnotation ==
    /\ probe.fn = "resizeAnnotation" /\ probe.result = <<>>
    /\ probe' = [probe EXCEPT !.result =
                    <<resizeAnnotation(probe.annotation, probe.handle, probe.screenDelta)>>]
    /\ UNCHANGED <<componentVars, ioVars, hostVars>>

\* the lists of at most MaxListLen annotations of a set
ListsOf(S) == UNION {[1..n -> S] : n \in 0..MaxListLen}

\* one annotation of each variant around the point (20, 15), the rectangle
\* with and without fill
HitAnnotations ==
    {Shape("rectangle", Pt(0, 0), Pt(40, 30), 0),
     [Shape("rectangle", Pt(0, 0), Pt(40, 30), 0) EXCEPT !.fillColor = InitialColor],
     Shape("circle", Pt(0, 0), Pt(40, 30), 0),
     Shape("arrow", Pt(0, 0), Pt(40, 30), 0),
     [Annotation(1, "draw", InitialColor, InitialBrushSize)
        EXCEPT !.points = <<Pt(0, 0), Pt(20, 15)>>],
     [Annotation(1, "text", InitialColor, TextStrokeWidth)
        EXCEPT !.text = "hi", !.position = Pt(16, 20)],
     [Annotation(1, "callout", InitialColor, InitialBrushSize)
        EXCEPT !.position = Pt(20, 15), !.calloutNumber = 1]}

\* the centre, a corner, 10 px and 9 px inside the left edge, the right edge,
\* far outside
HitPoints == {Pt(20, 15), Pt(0, 0), Pt(10, 10), Pt(9, 10), Pt(40, 15), Pt(60, 60)}

HitCalls ==
    {[fn |-> "findAnnotationAtPoint", annotations |-> anns, point |-> point,
      result |-> <<>>] : anns \in ListsOf(HitAnnotations), point \in HitPoints}
    \cup
    \* a shape 40 wide and 10 high (an arrow 40 long) about (20, 20), turned
    \* by 90 degrees, at the top of its drawn outline and at the left of its
    \* unrotated one
    {[fn |-> "findAnnotationAtPoint", annotations |-> <<a>>, point |-> point,
      result |-> <<>>] :
        a \in {Shape("rectangle", Pt(0, 15), Pt(40, 25), 90),
                Shape("circle", Pt(0, 15), Pt(40, 25), 90),
                Shape("arrow", Pt(0, 20), Pt(40, 20), 90)},
        point \in {Pt(20, 0), Pt(0, 20)}}

CallFindAnnotationAtPoint ==
    /\ probe.fn = "findAnnotationAtPoint" /\ probe.result = <<>>
    /\ probe' = [probe EXCEPT !.result =
                    <<findAnnotationAtPoint(probe.annotations, probe.point)>>]
    /\ UNCHANGED <<componentVars, ioVars, hostVars>>

\* freehand paths with points inside, on and outside the erase circle, and
\* annotations of other variants under the same points
EraseAnnotations ==
    {[Annotation(1, "draw", InitialColor, InitialBrushSize)
        EXCEPT !.points = <<Pt(0, 0), Pt(10, 0), Pt(30, 0)>>],
     [Annotation(1, "draw", InitialColor, InitialBrushSize)
        EXCEPT !.points = <<Pt(0, 0)>>],
     [Annotation(1, "draw", InitialColor, InitialBrushSize)
        EXCEPT !.points = <<Pt(30, 0), Pt(0, 6), Pt(40, 0)>>],
     Shape("rectangle", Pt(0, 0), Pt(40, 30), 0),
     Shape("arrow", Pt(0, 0), Pt(40, 30), 0),
     [Annotation(1, "callout", InitialColor, InitialBrushSize)
        EXCEPT !.position = Pt(0, 0), !.calloutNumber = 1]}

ErasePoints == {Pt(0, 0), Pt(36, 0), Pt(60, 60)}

EraseCalls ==
    {[fn |-> "eraseStrokeAtPoint", annotations |-> anns, point |-> point,
      result |-> <<>>] : anns \in ListsOf(EraseAnnotations), point \in ErasePoints}

CallEraseStrokeAtPoint ==
    /\ probe.fn = "eraseStrokeAtPoint" /\ probe.result = <<>>
    /\ probe' = [probe EXCEPT !.result =
                    <<eraseStrokeAtPoint(probe.annotations, probe.point)>>]
    /\ UNCHANGED <<componentVars, ioVars, hostVars>>

\* Track Shift key for constraining shapes
ShiftKeyDown ==
    /\ Step("keydown", [State EXCEPT !.isShiftHeld = TRUE])
    /\ UNCHANGED clock

ShiftKeyUp ==
    /\ Step("keyup", [State EXCEPT !.isShiftHeld = FALSE])
    /\ UNCHANGED clock

\* the four points at the distance of the rotation handle from the centre
\* (16, 12) of the shapes over x 8..24, y 8..16: right, below, left, above
RotatePoints == {Pt(45, 12), Pt(16, 41), Pt(-13, 12), Pt(16, -17)}

\* two rotation gestures on a selected shape, one after the other: each a
\* press at points[1] (points[3]), a pointer-move to points[2] (points[4])
\* and a release
RotateCalls ==
    {[fn |-> "rotateGestures",
      annotation |-> Shape(type, Pt(8, 8), Pt(24, 16), rotation),
      points |-> points, result |-> <<>>] :
        type \in {"rectangle", "circle", "arrow"}, rotation \in {0, 90, 180, -90},
        points \in [1..4 -> RotatePoints]}

\* the gestures happen when both presses land on the rotation handle
CallRotateGestures ==
    LET a == probe.annotation
        s0 == [InitialState EXCEPT !.selectedTool = "move", !.annotations = <<a>>,
                                   !.selectedAnnotationId = a.id,
                                   !.isShiftHeld = isShiftHeld]
        s1 == handleMouseDown(s0, probe.points[1], clock)
        s2 == handleWindowMouseMove(s1, probe.points[2])
        s3 == handleWindowMouseUp(s2)
        s4 == handleMouseDown(s3, probe.points[3], clock)
        s5 == handleWindowMouseMove(s4, probe.points[4])
        s6 == handleWindowMouseUp(s5)
    IN  /\ probe.fn = "rotateGestures" /\ probe.result = <<>>
        /\ s1.isRotating /\ s4.isRotating
        /\ probe' = [probe EXCEPT !.result =
                        <<[first |-> s3.annotations[1].rotation,
                           second |-> s6.annotations[1].rotation]>>]
        /\ UNCHANGED <<componentVars, ioVars, hostVars>>

\* one pointer-move of a rotation session.  rotationStartAngle is the pressed
\* angle minus the rotation at the press: straight above an unrotated shape,
\* and up to 16 degrees off (the handle has a radius of 8 px at 29 px from
\* the centre) or on a shape turned before
SnapCalls ==
    {[fn |-> "handleWindowMouseMove",
      annotation |-> Shape("rectangle", Pt(8, 8), Pt(24, 16), 0),
      rotationStartAngle |-> angle, point |-> point, result |-> <<>>] :
        angle \in {-90, -83, -82, -97, -52}, point \in RotatePoints}

CallHandleWindowMouseMove ==
    LET a == probe.annotation
        s == [InitialState EXCEPT !.selectedTool = "move", !.annotations = <<a>>,
                                  !.selectedAnnotationId = a.id, !.isRotating = TRUE,
                                  !.originalAnnotation = <<a>>,
                                  !.rotationStartAngle = probe.rotationStartAngle,
                                  !.isShiftHeld = isShiftHeld]
    IN  /\ probe.fn = "handleWindowMouseMove" /\ probe.result = <<>>
        /\ probe' = [probe EXCEPT !.result =
                        <<[shift |-> isShiftHeld,
                           rotation |-> handleWindowMouseMove(s, probe.point).annotations[1].rotation]>>]
        /\ UNCHANGED <<componentVars, ioVars, hostVars>>

\* one pointer-move while a rectangle or an ellipse is drawn from start: the
\* pointer wider than tall, taller than wide, towards each quadrant, along
\* one axis, and back on the start
DrawCalls ==
    {[fn |-> "handleMouseMove", type |-> type, start |-> start, point |-> point,
      result |-> <<>>] :
        type \in {"rectangle", "circle"}, start \in {Pt(0, 0), Pt(20, 20)},
        point \in {Pt(0, 0), Pt(30, 10), Pt(10, 30), Pt(20, 20), Pt(40, 0), Pt(0, 40),
                   Pt(20, 36), Pt(8, 20)}}

CallHandleMouseMove ==
    LET s0 == [InitialState EXCEPT !.selectedTool = probe.type,
                                   !.isShiftHeld = isShiftHeld]
        s1 == handleMouseDown(s0, probe.start, clock)
    IN  /\ probe.fn = "handleMouseMove" /\ probe.result = <<>>
        /\ probe' = [probe EXCEPT !.result =
                        <<[shift |-> isShiftHeld,
                           annotation |-> handleMouseMove(s1, probe.point).currentAnnotation[1]]>>]
        /\ UNCHANGED <<componentVars, ioVars, hostVars>>

\* one move-tool press: a rectangle over x 0..40, y 30..50 (id 1), alone or
\* with a callout (id 2) below or above it in the list, the callout on the
\* rectangle's rotation handle (20, 5) or on its nw handle (0, 30); the
\* rectangle, the callout or nothing selected; the press on the rotation
\* handle, on the nw handle, on the top edge between handles, off everything
PressCalls ==
    LET rectangle == Shape("rectangle", Pt(0, 30), Pt(40, 50), 0)
        callout(position) ==
            [Annotation(2, "callout", InitialColor, InitialBrushSize)
                EXCEPT !.position = position, !.calloutNumber = 1]
    IN  {[fn |-> "handleMouseDown", annotations |-> anns, selectedAnnotationId |-> id,
          point |-> point, result |-> <<>>] :
            anns \in {<<rectangle>>} \cup
                     {<<rectangle, callout(c)>> : c \in {Pt(20, 5), Pt(0, 30)}} \cup
                     {<<callout(c), rectangle>> : c \in {Pt(20, 5), Pt(0, 30)}},
            id \in 0..2,
            point \in {Pt(20, 5), Pt(0, 30), Pt(10, 30), Pt(60, 60)}}

CallHandleMouseDown ==
    LET s == [InitialState EXCEPT !.selectedTool = "move",
                                  !.annotations = probe.annotations,
                                  !.selectedAnnotationId = probe.selectedAnnotationId,
                                  !.isShiftHeld = isShiftHeld]
    IN  /\ probe.fn = "handleMouseDown" /\ probe.result = <<>>
        /\ probe' = [probe EXCEPT !.result = <<handleMouseDown(s, probe.point, clock)>>]
        /\ UNCHANGED <<componentVars, ioVars, hostVars>>

\* Calculate anchor position (opposite corner in visual space)
anchorPos(a, handle) ==
    rotatePoint(getLocalCorner(a, getAnchorHandle(handle)), getAnnotationCenter(a),
                a.rotation)

InitGeometry ==
    /\ InitialComponent
    /\ hist = HistOff
    /\ movesLeft = 0
    /\ lastEvent = "untracked"
    /\ probe \in ResizeCalls \cup HitCalls \cup EraseCalls \cup RotateCalls
                \cup SnapCalls \cup DrawCalls \cup PressCalls

NextGeometry ==
    \/ CallResizeAnnotation
    \/ CallFindAnnotationAtPoint
    \/ CallEraseStrokeAtPoint
    \/ CallRotateGestures
    \/ CallHandleWindowMouseMove
    \/ CallHandleMouseMove
    \/ CallHandleMouseDown
    \/ ShiftKeyDown
    \/ ShiftKeyUp

SpecGeometry == InitGeometry /\ [][NextGeometry]_vars

(***************************************************************************)
(* The image and the export.  An export is one call of getAnnotatedImage   *)
(* by handleCopy or handleSave: stage "capture" while it awaits the        *)
(* DEIXIS_CAPTURE_TAB response, "crop" while it awaits the decoding of the *)
(* screenshot, "resolved" once its promise has resolved, with dataUrl ""   *)
(* for null.  callbacks lists the calls of the onCopy and onSave props.    *)
(***************************************************************************)
\* img.onload: the image is drawn on the canvas; an image of another origin
\* taints it
ImageLoad ==
    \E crossOrigin \in BOOLEAN :
        /\ overlayOpen
        /\ imageStatus = "loading"
        /\ imageStatus' = "loaded"
        /\ canvasTainted' = crossOrigin
        /\ UNCHANGED <<exports, callbacks, overlayOpen, componentVars, probe, hostVars>>

\* img.onerror: console.error only
ImageError ==
    /\ overlayOpen
    /\ imageStatus = "loading"
    /\ imageStatus' = "error"
    /\ UNCHANGED <<canvasTainted, exports, callbacks, overlayOpen, componentVars, probe, hostVars>>

\* getAnnotatedImage up to its first await: canvas.toDataURL resolves the
\* export, or throws on a tainted canvas and the screenshot is requested
getAnnotatedImage(command, tainted) ==
    [command |-> command,
     stage |-> IF tainted THEN "capture" ELSE "resolved",
     dataUrl |-> IF tainted THEN "" ELSE "canvas.png",
     response |-> "none", crop |-> "none"]

\* the response of the background script: success with the screenshot, failure,
\* or sendMessage rejects
onCaptureResponse(e, outcome) ==
    IF outcome = "success"
    THEN [e EXCEPT !.stage = "crop", !.response = outcome]
    ELSE [e EXCEPT !.stage = "resolved", !.response = outcome, !.dataUrl = ""]

\* fullImg.onload (with or without a 2D context for the crop) / fullImg.onerror
onCropImage(e, outcome) ==
    [e EXCEPT !.stage = "resolved", !.crop = outcome,
              !.dataUrl = IF outcome = "onload" THEN "crop.png" ELSE ""]

callbackAlways(e, i) ==
    IF e.stage = "resolved"
    THEN <<[callback |-> IF e.command = "copy" THEN "onCopy" ELSE "onSave",
            dataUrl |-> e.dataUrl, export |-> i]>>
    ELSE <<>>

\* handleCopy / handleSave after the await: if (dataUrl) onCopy(dataUrl)
callbackOf(e, i) ==
    IF e.stage = "resolved" /\ e.dataUrl # ""
    THEN <<[callback |-> IF e.command = "copy" THEN "onCopy" ELSE "onSave",
            dataUrl |-> e.dataUrl, export |-> i]>>
    ELSE <<>>

\* export i has become e: handleCopy / handleSave go on if it has resolved;
\* the caller's handleSave closes the overlay within the callback
Continue(i, e) ==
    /\ exports' = [j \in 1..Max(i, Len(exports)) |-> IF j = i THEN e ELSE exports[j]]
    /\ callbacks' = callbacks \o callbackOf(e, i)
    /\ overlayOpen' = (overlayOpen /\ ~(e.command = "save" /\ callbackOf(e, i) # <<>>))
    /\ sessions' =
         LET startedIn == IF i > Len(sessions.startedIn)
                          THEN Append(sessions.startedIn, sessions.current)
                          ELSE sessions.startedIn
         IN  [sessions EXCEPT
                !.startedIn = startedIn,
                !.closedBy = IF overlayOpen /\ ~overlayOpen'
                             THEN <<[startedIn |-> startedIn[i],
                                     closed |-> sessions.current]>>
                             ELSE @]
    /\ UNCHANGED <<imageStatus, canvasTainted, componentVars, probe, page>>

\* the Copy and Save buttons of the toolbar
ExportClick ==
    \E command \in {"copy", "save"} :
        /\ overlayOpen
        /\ Len(exports) < MaxExports
        /\ Continue(Len(exports) + 1, getAnnotatedImage(command, canvasTainted))

\* the answer to browser.runtime.sendMessage({type: 'DEIXIS_CAPTURE_TAB'})
CaptureResponse ==
    \E i \in 1..Len(exports), outcome \in {"success", "failure", "error"} :
        /\ exports[i].stage = "capture"
        /\ Continue(i, onCaptureResponse(exports[i], outcome))

\* the screenshot has been decoded, or not
CropImage ==
    \E i \in 1..Len(exports), outcome \in {"onload", "noContext", "onerror"} :
        /\ exports[i].stage = "crop"
        /\ Continue(i, onCropImage(exports[i], outcome))

\* the caller's handleCopy closes the overlay after the clipboard write:
\* closeAnnotation() sets isAnnotationOpen = false and unmounts, whichever
\* overlay is open
CloseAfterCopy ==
    \E k \in 1..Len(callbacks) :
        LET i == callbacks[k].export IN
        /\ callbacks[k].callback = "onCopy"
        /\ i \notin sessions.finished
        /\ overlayOpen' = FALSE
        /\ sessions' = [sessions EXCEPT
                          !.finished = @ \cup {i},
                          !.closedBy = IF overlayOpen /\ ~overlayOpen'
                                       THEN <<[startedIn |-> sessions.startedIn[i],
                                               closed |-> sessions.current]>>
                                       ELSE @]
        /\ UNCHANGED <<imageStatus, canvasTainted, exports, callbacks, componentVars,
                       probe, page>>

\* the Cancel button: onCancel is the onClose prop, the caller's closeAnnotation
CancelClick ==
    /\ overlayOpen
    /\ overlayOpen' = FALSE
    /\ UNCHANGED <<imageStatus, canvasTainted, exports, callbacks, componentVars,
                   probe, sessions, page>>

\* openAnnotation(): returns if an overlay is open, else mounts a new
\* AnnotationOverlay, whose image loads anew (the component state of the new
\* mount is the initial one, which no event has changed where sessions are
\* examined)
OpenAnnotation ==
    /\ ~overlayOpen
    /\ sessions.current < MaxSessions
    /\ overlayOpen' = TRUE
    /\ sessions' = [sessions EXCEPT !.current = @ + 1]
    /\ imageStatus' = "loading"
    /\ canvasTainted' = FALSE
    /\ UNCHANGED <<exports, callbacks, componentVars, probe, page>>

(***************************************************************************)
(* The export scenario: the image loads or fails, annotations are drawn,   *)
(* Copy and Save are clicked and the screenshot round trips complete.      *)
(***************************************************************************)
NextOverlay ==
    \/ ImageLoad
    \/ ImageError
    \/ ToolChange(OverlayTools)
    \/ CanvasMouseDown
    \/ CanvasMouseUp
    \/ Undo
    \/ Redo
    \/ ExportClick
    \/ CaptureResponse
    \/ CropImage
    \/ CloseAfterCopy

SpecOverlay == Init /\ [][NextOverlay]_vars

(***************************************************************************)
(* Overlay sessions: exports are started, the overlay is cancelled and     *)
(* opened again while the exports go on.                                   *)
(***************************************************************************)
NextReopen ==
    \/ ImageLoad
    \/ ImageError
    \/ ExportClick
    \/ CaptureResponse
    \/ CropImage
    \/ CloseAfterCopy
    \/ CancelClick
    \/ OpenAnnotation

SpecReopen == Init /\ [][NextReopen]_vars

(***************************************************************************)
(* Undo and redo.                                                          *)
(***************************************************************************)
\* C1: after N commits from the empty list, N undos leave the list empty, and
\* N redos after them leave the list equal to the post-commit list, in order,
\* with an empty redoStack.
UndoRedoRoundTrip ==
    /\ (hist.phase = "u" /\ hist.k = Len(hist.snap)) => annotations = <<>>
    /\ (hist.phase = "r" /\ hist.k = Len(hist.snap)) =>
          (annotations = hist.snap /\ redoStack = <<>>)

\* two different annotations were committed, undone and redone
UndoRedoRoundTripWitness ==
    /\ hist.phase = "r" /\ hist.k = 2 /\ Len(hist.snap) = 2
    /\ hist.snap[1] # hist.snap[2]
    /\ annotations = hist.snap

\* C2: every step that commits a new annotation (pointer up or leave ending a
\* drawing, callout placed, text submitted, duplicate created) leaves the
\* redoStack empty.
CommitClearsRedoStack ==
    [][((CanvasMouseDown \/ CanvasMouseUp \/ CanvasMouseLeave \/ Duplicate
            \/ TextKeyDown \/ TextBlur \/ TextBlurAfterClose)
          /\ Len(annotations') = Len(annotations) + 1)
        => redoStack' = <<>>]_vars

\* callout 1 was undone and callout 2 committed after it: redo is unavailable
CommitAfterUndoWitness ==
    /\ Len(annotations) = 1
    /\ annotations[1].type = "callout" /\ annotations[1].calloutNumber = 2
    /\ redoStack = <<>>

\* C3: every step that erases (object or stroke mode) or clears all leaves
\* the redoStack empty.
EraseAndClearEmptyRedoStack ==
    [][((ClearAll \/ (selectedTool = "eraser" /\ (CanvasMouseDown \/ CanvasMouseMove)))
          /\ annotations' # annotations)
        => redoStack' = <<>>]_vars

(***************************************************************************)
(* Gesture sessions.                                                       *)
(***************************************************************************)
\* C4: at most one of the drawing, dragging, resizing, rotating and
\* stroke-erasing sessions is active.
SessionsExclusive ==
    Cardinality({k \in 1..5 :
        <<isDrawing, draggingId # 0, resizingHandle # "none", isRotating,
          isErasing>>[k]}) <= 1

\* C5 as stated: after a pointer-leave no session is active.
LeaveEndsEverySession ==
    [][CanvasMouseLeave =>
          /\ ~isDrawing' /\ draggingId' = 0 /\ resizingHandle' = "none"
          /\ ~isRotating' /\ ~isErasing']_vars

\* C5, amended: a pointer-leave ends the stroke-erasing session; a resize or
\* rotate session stays as it was; when none of the three was active it ends
\* the dragging session, and when there was no dragging either it ends the
\* drawing and commits the in-progress annotation.
LeaveEndsCanvasSession ==
    [][CanvasMouseLeave =>
          /\ ~isErasing'
          /\ resizingHandle' = resizingHandle /\ isRotating' = isRotating
          /\ (~isErasing /\ resizingHandle = "none" /\ ~isRotating) =>
                /\ draggingId' = 0
                /\ draggingId = 0 =>
                      /\ ~isDrawing' /\ currentAnnotation' = <<>>
                      /\ annotations' = annotations \o currentAnnotation]_vars

\* the pointer has just left the canvas and the resize session is still on
LeaveDuringResizeWitness ==
    /\ pointer = "left"
    /\ resizingHandle # "none"
    /\ ~isDrawing /\ draggingId = 0 /\ ~isRotating /\ ~isErasing

\* C6: an in-progress annotation leaves the slot only by being appended to
\* the list, once, with the slot empty afterwards.
InProgressCommittedOnce ==
    [][(currentAnnotation # <<>> /\ currentAnnotation' # currentAnnotation
          /\ ~CanvasMouseMove)
        => (currentAnnotation' = <<>>
              /\ annotations' = Append(annotations, currentAnnotation[1]))]_vars

(***************************************************************************)
(* Text entry.                                                             *)
(***************************************************************************)
\* C7: Escape commits nothing; Enter, and the blur of the open input, commit
\* exactly one text annotation (the typed text at the input's position) when
\* the text is non-empty and nothing when it is empty, and close the input; a
\* blur delivered after the input was closed commits nothing.
TextSessionCommitsOnce ==
    [][/\ TextKey("Escape") => annotations' = annotations
       /\ (TextKey("Enter") \/ TextBlur) =>
             /\ ~textInput'.visible
             /\ annotations' =
                  IF inputValue = "" THEN annotations
                  ELSE Append(annotations,
                         [Annotation(clock, "text", InitialColor, TextStrokeWidth)
                            EXCEPT !.text = inputValue,
                                   !.position = textInput.position])
       /\ (TextBlurAfterClose \/ BlurDropped) => annotations' = annotations]_vars

\* Enter has committed the text and the blur of the removed input is due
TextCommittedBlurDueWitness ==
    /\ blurPending = "maybe"
    /\ Len(annotations) = 1 /\ annotations[1].type = "text"
    /\ annotations[1].text = "hi"

(***************************************************************************)
(* Identity, duplication and selection.                                    *)
(***************************************************************************)
\* C8: the annotations of the list, the redoStack and the in-progress slot
\* have pairwise distinct ids.
IdsUnique ==
    LET all == annotations \o redoStack \o currentAnnotation
    IN  \A i, j \in 1..Len(all) : i # j => all[i].id # all[j].id

\* C9: Duplicate of the selected annotation appends one annotation, the
\* original translated by (20, 20) with every other field equal, under an id
\* that no annotation of the list has, and selects it; the list before it is
\* unchanged.
DuplicateAppendsShiftedCopy ==
    [][(Duplicate /\ FindById(annotations, selectedAnnotationId) # 0) =>
          LET orig == annotations[FindById(annotations, selectedAnnotationId)]
              copy == annotations'[Len(annotations')]
              Shift(q) == Pt(q.x + 20, q.y + 20)
          IN  /\ Len(annotations') = Len(annotations) + 1
              /\ SubSeq(annotations', 1, Len(annotations)) = annotations
              /\ copy = [orig EXCEPT
                           !.id = copy.id,
                           !.points = [i \in 1..Len(orig.points) |-> Shift(orig.points[i])],
                           !.start = IF orig.type \in {"draw", "text", "callout"}
                                     THEN orig.start ELSE Shift(orig.start),
                           !.end = IF orig.type \in {"draw", "text", "callout"}
                                   THEN orig.end ELSE Shift(orig.end),
                           !.position = IF orig.type \in {"text", "callout"}
                                        THEN Shift(orig.position) ELSE orig.position]
              /\ \A i \in 1..Len(annotations) : annotations[i].id # copy.id
              /\ selectedAnnotationId' = copy.id]_vars

\* C10: an annotation is selected only while the active tool is move.
SelectionOnlyUnderMove == selectedAnnotationId # 0 => selectedTool = "move"

(***************************************************************************)
(* Operations on an annotation that has left the list.                     *)
(***************************************************************************)
\* the id names no annotation of the list
Stale(id) == FindById(annotations, id) = 0

AnchorLocked ==
    (probe.fn = "resizeAnnotation" /\ probe.result # <<>>) =>
        anchorPos(probe.result[1], probe.handle) = anchorPos(probe.annotation, probe.handle)

(***************************************************************************)
(* Hit-testing.                                                            *)
(***************************************************************************)
\* C13: findAnnotationAtPoint returns the highest index among the annotations
\* that satisfy their hit rule at the point, and none (0) exactly when no
\* annotation satisfies its hit rule.
TopMostHitReturned ==
    (probe.fn = "findAnnotationAtPoint" /\ probe.result # <<>>) =>
        LET hits == {i \in 1..Len(probe.annotations) :
                        HitRule(probe.annotations[i], probe.point)}
        IN  probe.result[1] =
                IF hits = {} THEN 0 ELSE CHOOSE i \in hits : \A j \in hits : j <= i

\* of three annotations the two lower ones are hit and the middle one returned
TopMostOfTwoHitsWitness ==
    /\ probe.fn = "findAnnotationAtPoint" /\ probe.result = <<2>>
    /\ Len(probe.annotations) = 3
    /\ HitRule(probe.annotations[1], probe.point)
    /\ ~HitRule(probe.annotations[3], probe.point)

\* the point is inside the rectangle, hitPadding or more from its four borders
InteriorFarFromBorders(a, point) ==
    /\ point.x - Min(a.start.x, a.end.x) >= hitPadding
    /\ Max(a.start.x, a.end.x) - point.x >= hitPadding
    /\ point.y - Min(a.start.y, a.end.y) >= hitPadding
    /\ Max(a.start.y, a.end.y) - point.y >= hitPadding

\* the list with the fill of every rectangle switched (set <-> not set)
FillSwitched(anns) ==
    [i \in 1..Len(anns) |->
        IF anns[i].type = "rectangle"
        THEN [anns[i] EXCEPT !.fillColor = IF anns[i].fillColor = "" THEN InitialColor ELSE ""]
        ELSE anns[i]]

\* C14: the hit test never returns a rectangle for a point inside it that is
\* 10 px or more from its four borders, and returns the same match whether
\* the rectangles' fillColor is set or not.
RectangleHitOnlyNearBorder ==
    (probe.fn = "findAnnotationAtPoint" /\ probe.result # <<>>) =>
        /\ \A i \in 1..Len(probe.annotations) :
              (/\ probe.annotations[i].type = "rectangle"
               /\ InteriorFarFromBorders(probe.annotations[i], probe.point))
              => probe.result[1] # i
        /\ probe.result[1] = findAnnotationAtPoint(FillSwitched(probe.annotations), probe.point)

\* the centre of a filled rectangle was tested alone: no match
FilledInteriorMissWitness ==
    /\ probe.fn = "findAnnotationAtPoint" /\ probe.result = <<0>>
    /\ Len(probe.annotations) = 1
    /\ probe.annotations[1].type = "rectangle" /\ probe.annotations[1].fillColor # ""
    /\ InteriorFarFromBorders(probe.annotations[1], probe.point)

(***************************************************************************)
(* Stroke erasing.                                                         *)
(***************************************************************************)
\* the annotation after a stroke erase at the point: a freehand path keeps, in
\* order, its points farther than the erase radius
AfterErase(a, point) ==
    IF a.type = "draw"
    THEN [a EXCEPT !.points = SelectSeq(a.points, LAMBDA q : DistSq(q, point) > 10 * 10)]
    ELSE a

\* C15: a stroke erase at a point removes from every freehand annotation
\* exactly its path points within 10 px of the point, keeps the others in
\* order, drops the freehand annotations left without points, and leaves every
\* other annotation and the order of the surviving annotations unchanged.
StrokeEraseRemovesNearPoints ==
    (probe.fn = "eraseStrokeAtPoint" /\ probe.result # <<>>) =>
        LET after == [i \in 1..Len(probe.annotations) |->
                         AfterErase(probe.annotations[i], probe.point)]
        IN  probe.result[1] =
                SelectSeq(after, LAMBDA a : a.type # "draw" \/ a.points # <<>>)

\* a path lost two of its three points (one of them on the erase circle), a
\* one-point path was removed and the rectangle under the point was kept
StrokeEraseWitness ==
    /\ probe.fn = "eraseStrokeAtPoint" /\ probe.point = Pt(0, 0)
    /\ Len(probe.annotations) = 3
    /\ probe.annotations[1].type = "draw" /\ Len(probe.annotations[1].points) = 1
    /\ probe.annotations[2].type = "rectangle"
    /\ probe.annotations[3].type = "draw"
    /\ probe.annotations[3].points = <<Pt(0, 0), Pt(10, 0), Pt(30, 0)>>
    /\ probe.result # <<>> /\ Len(probe.result[1]) = 2
    /\ probe.result[1][2].points = <<Pt(30, 0)>>

(***************************************************************************)
(* Degenerate gestures.                                                    *)
(***************************************************************************)
\* C18: a pointer-up that follows a pointer-down directly (no pointer-move in
\* between) under a freehand or shape tool adds no annotation to the list.
ZeroLengthGestureDropped ==
    [][(/\ CanvasMouseUp
        /\ lastEvent = "mousedown"
        /\ selectedTool \notin {"move", "eraser", "text", "callout"})
        => annotations' = annotations]_vars

ExportsSerialized ==
    Cardinality({i \in 1..Len(exports) : exports[i].stage # "resolved"}) <= 1

\* C17: an export whose screenshot request and crop succeed resolves with an
\* image; an export that resolves with an image fires its command's callback
\* exactly once, with that image; an export whose fallback fails, or that has
\* not resolved, fires no callback; no callback fires without an image.
FallbackTransparent ==
    /\ \A i \in 1..Len(exports) :
          LET e == exports[i]
              mine == {k \in 1..Len(callbacks) : callbacks[k].export = i}
          IN  /\ (e.stage = "resolved" /\ e.response = "success" /\ e.crop = "onload")
                    => e.dataUrl # ""
              /\ (/\ e.stage = "resolved" /\ e.response # "none"
                  /\ ~(e.response = "success" /\ e.crop = "onload"))
                    => (e.dataUrl = "" /\ mine = {})
              /\ (e.stage = "resolved" /\ e.dataUrl # "") =>
                    /\ Cardinality(mine) = 1
                    /\ \A k \in mine :
                          /\ callbacks[k].dataUrl = e.dataUrl
                          /\ callbacks[k].callback =
                                IF e.command = "copy" THEN "onCopy" ELSE "onSave"
              /\ e.stage # "resolved" => mine = {}
    /\ \A k \in 1..Len(callbacks) : callbacks[k].dataUrl # ""

\* a Copy on a tainted canvas has resolved through the screenshot and fired
\* onCopy once; a Save whose screenshot request failed fired nothing
FallbackCopyWitness ==
    /\ Len(exports) = 2
    /\ exports[1].command = "copy" /\ exports[1].stage = "resolved"
    /\ exports[1].response = "success" /\ exports[1].crop = "onload"
    /\ exports[2].command = "save" /\ exports[2].stage = "resolved"
    /\ exports[2].response = "failure"
    /\ callbacks = <<[callback |-> "onCopy", dataUrl |-> "crop.png", export |-> 1]>>

(***************************************************************************)
(* Image load failure.                                                     *)
(***************************************************************************)
\* C19: after a load error no event changes the annotation list, the
\* in-progress slot or the redoStack.
LoadErrorHaltsEditing ==
    [][imageStatus = "error" =>
          UNCHANGED <<annotations, currentAnnotation, redoStack>>]_vars

(***************************************************************************)
(* Callout numbering.                                                      *)
(***************************************************************************)
\* C21: the counter starts at 1, a callout placement appends a callout that
\* carries the counter and advances the counter by one, and no other event
\* (commit, undo, redo, erase, Clear All, tool change) changes the counter: the
\* k-th callout placed carries number k.
CalloutNumbersCount ==
    [][IF CanvasMouseDown /\ selectedTool = "callout"
       THEN /\ Len(annotations') = Len(annotations) + 1
            /\ annotations'[Len(annotations')].type = "callout"
            /\ annotations'[Len(annotations')].calloutNumber = calloutCounter
            /\ calloutCounter' = calloutCounter + 1
            /\ calloutCounter = 1 => \A i \in 1..Len(annotations) :
                                        annotations[i].type # "callout"
       ELSE calloutCounter' = calloutCounter]_vars

\* callout 1 was cleared, a stroke drawn, and the second callout placed
SecondCalloutAfterClearWitness ==
    /\ Len(annotations) = 2
    /\ annotations[1].type = "draw"
    /\ annotations[2].type = "callout" /\ annotations[2].calloutNumber = 2
    /\ calloutCounter = 3

(***************************************************************************)
(* Dragging.                                                               *)
(***************************************************************************)
\* C22: a pointer-move of a drag session, at some pointer position, leaves
\* one annotation with the dragged id translated so that its centre is the
\* pointer position minus the recorded offset, and every other annotation of
\* the list unchanged.
DragKeepsOffset ==
    [][(/\ CanvasMouseMove
        /\ draggingId # 0 /\ ~Stale(draggingId)
        /\ ~isErasing /\ resizingHandle = "none" /\ ~isRotating)
        => \E point \in CanvasPoints, idx \in 1..Len(annotations) :
              LET before == getAnnotationCenter(annotations[idx])
                  after == Pt(point.x - dragOffset.x, point.y - dragOffset.y)
              IN  /\ annotations[idx].id = draggingId
                  /\ annotations' =
                        [annotations EXCEPT ![idx] =
                            moveAnnotation(annotations[idx],
                                           Pt(after.x - before.x, after.y - before.y))]
                  /\ getAnnotationCenter(annotations'[idx]) = after]_vars

\* C23: rotation gestures compose additively.  After one gesture the rotation
\* is the rotation before it plus the angle the pointer turned about the
\* centre, modulo a full turn; a gesture whose pointer ends at the pressed
\* angle leaves the rotation as it was; and after a gesture turning by t and
\* one turning by -t the rotation is the original one, modulo a full turn.
RotationsCompose ==
    (probe.fn = "rotateGestures" /\ probe.result # <<>>) =>
        LET center == getAnnotationCenter(probe.annotation)
            Angle(p) == Atan2Deg(p.y - center.y, p.x - center.x)
            turn1 == Angle(probe.points[2]) - Angle(probe.points[1])
            turn2 == Angle(probe.points[4]) - Angle(probe.points[3])
            r0 == probe.annotation.rotation
            r1 == probe.result[1].first
            r2 == probe.result[1].second
        IN  /\ NormDeg(r1) = NormDeg(r0 + turn1)
            /\ NormDeg(r2) = NormDeg(r1 + turn2)
            /\ turn1 = 0 => r1 = r0
            /\ NormDeg(turn1 + turn2) = 0 => NormDeg(r2) = NormDeg(r0)

\* a shape at 90 degrees turned a quarter forth and a quarter back
TurnedBackWitness ==
    /\ probe.fn = "rotateGestures" /\ probe.result # <<>>
    /\ probe.annotation.rotation = 90
    /\ probe.points = <<Pt(45, 12), Pt(16, 41), Pt(16, 41), Pt(45, 12)>>
    /\ probe.result[1] = [first |-> 180, second |-> 90]

\* C24: with Shift held during a rotation session, the rotation a
\* pointer-move writes is an integer multiple of 15 degrees, and no other
\* multiple of 15 degrees is nearer to the unconstrained value (the pointer's
\* angle about the centre minus rotationStartAngle).
ShiftSnapsRotation ==
    (probe.fn = "handleWindowMouseMove" /\ probe.result # <<>> /\ probe.result[1].shift) =>
        LET center == getAnnotationCenter(probe.annotation)
            unconstrained == Atan2Deg(probe.point.y - center.y, probe.point.x - center.x)
                                - probe.rotationStartAngle
            written == probe.result[1].rotation
        IN  /\ written % 15 = 0
            /\ 2 * Abs(written - unconstrained) <= 15

\* 173 degrees unconstrained (pointer to the left, pressed 7 degrees past
\* straight up) is written as 180
SnappedWitness ==
    /\ probe.fn = "handleWindowMouseMove" /\ probe.result # <<>>
    /\ probe.rotationStartAngle = -83 /\ probe.point = Pt(16, 41)
    /\ probe.result[1] = [shift |-> TRUE, rotation |-> 180]

\* C25: with Shift held, a pointer-move of a rectangle or ellipse being drawn
\* puts the end where |end.x - start.x| = |end.y - start.y| = max(|dx|, |dy|)
\* for the pointer's offset (dx, dy) from the start, each side pointing the
\* way the pointer does.
ShiftDrawsSquare ==
    (probe.fn = "handleMouseMove" /\ probe.result # <<>> /\ probe.result[1].shift) =>
        LET a == probe.result[1].annotation
            dx == probe.point.x - probe.start.x
            dy == probe.point.y - probe.start.y
            ex == a.end.x - a.start.x
            ey == a.end.y - a.start.y
        IN  /\ a.start = probe.start
            /\ Abs(ex) = Max(Abs(dx), Abs(dy))
            /\ Abs(ey) = Max(Abs(dx), Abs(dy))
            /\ dx # 0 => (ex > 0) = (dx > 0)
            /\ dy # 0 => (ey > 0) = (dy > 0)

\* (0, 0) to (30, 10) gives a 30 x 30 square
SquareWitness ==
    /\ probe.fn = "handleMouseMove" /\ probe.result # <<>>
    /\ probe.result[1].shift
    /\ probe.type = "rectangle"
    /\ probe.start = Pt(0, 0) /\ probe.point = Pt(30, 10)
    /\ probe.result[1].annotation.end = Pt(30, 30)
\* C26: a step that enters a resizing or rotating session (it sets
\* resizingHandle, or sets isRotating, or renews the data of the session) is
\* a pointer-down, on a handle element or on the canvas where the point hits
\* the rotation handle or a resize handle of the selected annotation; the
\* selected annotation is in the list, it is a rectangle, an ellipse or an
\* arrow, and the snapshot taken is that annotation as it is at the press.
SessionEntryGuarded ==
    [][(\/ /\ resizingHandle' # "none"
           /\ <<resizingHandle, resizeStartPoint, originalAnnotation>>'
                 # <<resizingHandle, resizeStartPoint, originalAnnotation>>
        \/ /\ isRotating'
           /\ <<isRotating, rotationStartAngle, originalAnnotation>>'
                 # <<isRotating, rotationStartAngle, originalAnnotation>>) =>
        LET sel == FindById(annotations, selectedAnnotationId)
        IN  /\ selectedAnnotationId # 0 /\ sel # 0
            /\ annotations[sel].type \in {"rectangle", "circle", "arrow"}
            /\ originalAnnotation' = <<annotations[sel]>>
            /\ \/ ResizeHandleMouseDown
               \/ RotationHandleMouseDown
               \/ /\ CanvasMouseDown
                  /\ \E point \in PressPoints :
                        \/ isPointOnRotationHandle(point, annotations[sel])
                        \/ findResizeHandleAtPoint(point, annotations[sel]) # "none"]_vars

\* a resize session entered by a press on the canvas, on a handle of the
\* selected rectangle
ResizeEnteredWitness ==
    /\ resizingHandle # "none" /\ pointer = "canvas"
    /\ resizeStartPoint = <<Pt(0, 20)>>
    /\ selectedAnnotationId # 0 /\ ~Stale(selectedAnnotationId)
    /\ originalAnnotation = <<annotations[FindById(annotations, selectedAnnotationId)]>>
    /\ originalAnnotation[1].type = "rectangle"
\* C27: a pointer-move (on the canvas or at window level) leaves the
\* redoStack as it is and never makes the list longer; while a shape or path
\* is being drawn and no other session is active it leaves the list as it
\* is; while an annotation is dragged, resized or rotated it keeps the length
\* of the list and changes at most one element, the one with the id of the
\* session, every other element staying at its index.
MoveKeepsHistory ==
    [][(CanvasMouseMove \/ WindowMouseMove) =>
        LET changed == {i \in 1..Len(annotations) : annotations'[i] # annotations[i]}
            target == IF draggingId # 0 THEN draggingId ELSE originalAnnotation[1].id
        IN  /\ redoStack' = redoStack
            /\ Len(annotations') <= Len(annotations)
            /\ (/\ isDrawing /\ draggingId = 0 /\ resizingHandle = "none"
                /\ ~isRotating /\ ~isErasing) => annotations' = annotations
            /\ (draggingId # 0 \/ resizingHandle # "none" \/ isRotating) =>
                  /\ Len(annotations') = Len(annotations)
                  /\ Cardinality(changed) <= 1
                  /\ \A i \in changed : annotations[i].id = target]_vars
\* C28: for an unrotated rectangle or ellipse, whichever corner it starts at,
\* resizing by a handle moves the edges the handle is displayed on (the top
\* edge for nw, n, ne; the right edge for ne, e, se; the bottom edge for se,
\* s, sw; the left edge for sw, w, nw) by the delta and leaves the other
\* edges where they were: the resized shape spans the edges so moved.
EdgesFollowHandle ==
    (probe.fn = "resizeAnnotation" /\ probe.result # <<>> /\ probe.annotation.rotation = 0) =>
        LET a == probe.annotation
            r == probe.result[1]
            h == probe.handle
            d == probe.screenDelta
            left == Min(a.start.x, a.end.x) + (IF h \in {"sw", "w", "nw"} THEN d.x ELSE 0)
            right == Max(a.start.x, a.end.x) + (IF h \in {"ne", "e", "se"} THEN d.x ELSE 0)
            top == Min(a.start.y, a.end.y) + (IF h \in {"nw", "n", "ne"} THEN d.y ELSE 0)
            bottom == Max(a.start.y, a.end.y) + (IF h \in {"se", "s", "sw"} THEN d.y ELSE 0)
        IN  /\ Min(r.start.x, r.end.x) = Min(left, right)
            /\ Max(r.start.x, r.end.x) = Max(left, right)
            /\ Min(r.start.y, r.end.y) = Min(top, bottom)
            /\ Max(r.start.y, r.end.y) = Max(top, bottom)
\* C29: for a rectangle, ellipse or arrow rotated by 90 degrees, a point that
\* is on the outline as drawn (the point turned back about the centre meets
\* the shape's hit rule) hits the shape, and a point on the unrotated outline
\* that is outside the tolerance of the drawn outline does not.
RotatedOutlineHit ==
    (/\ probe.fn = "findAnnotationAtPoint" /\ probe.result # <<>>
     /\ Len(probe.annotations) = 1 /\ probe.annotations[1].rotation = 90) =>
        LET a == probe.annotations[1]
            local == rotatePoint(probe.point, getAnnotationCenter(a), -a.rotation)
            onDrawn == HitRule(a, local)
            onUnrotated == HitRule(a, probe.point)
        IN  /\ onDrawn => probe.result[1] = 1
            /\ (onUnrotated /\ ~onDrawn) => probe.result[1] = 0
\* C30: on a move-tool press with a selected annotation in the list, a hit on
\* its rotation handle starts rotating (and no resize, selection or drag),
\* whatever else is under the pointer; otherwise a hit on one of its resize
\* handles starts resizing by that handle (and no rotation, selection or
\* drag), even with an annotation body under the pointer; otherwise an
\* annotation body under the pointer is selected and dragged.  In both handle
\* cases selectedAnnotationId and draggingId are as before the press.
HandlesBeforeBody ==
    (/\ probe.fn = "handleMouseDown" /\ probe.result # <<>>
     /\ probe.selectedAnnotationId # 0
     /\ FindById(probe.annotations, probe.selectedAnnotationId) # 0) =>
        LET a == probe.annotations[FindById(probe.annotations, probe.selectedAnnotationId)]
            t == probe.result[1]
            onRotation == isPointOnRotationHandle(probe.point, a)
            handle == findResizeHandleAtPoint(probe.point, a)
            body == findAnnotationAtPoint(probe.annotations, probe.point)
            Kept == /\ t.selectedAnnotationId = probe.selectedAnnotationId
                    /\ t.draggingId = InitialState.draggingId
        IN  /\ onRotation =>
                  /\ t.isRotating /\ t.resizingHandle = "none"
                  /\ t.originalAnnotation = <<a>> /\ Kept
            /\ (~onRotation /\ handle # "none") =>
                  /\ ~t.isRotating /\ t.resizingHandle = handle
                  /\ t.originalAnnotation = <<a>> /\ Kept
            /\ (~onRotation /\ handle = "none" /\ body # 0) =>
                  /\ ~t.isRotating /\ t.resizingHandle = "none"
                  /\ t.selectedAnnotationId = probe.annotations[body].id
                  /\ t.draggingId = probe.annotations[body].id

\* the press on the rotation handle of the selected rectangle, with a callout
\* on top of the list under the pointer, starts rotating and selects nothing
RotationOverBodyWitness ==
    /\ probe.fn = "handleMouseDown" /\ probe.result # <<>>
    /\ probe.selectedAnnotationId = 1 /\ probe.point = Pt(20, 5)
    /\ Len(probe.annotations) = 2
    /\ findAnnotationAtPoint(probe.annotations, probe.point) = 2
    /\ probe.result[1].isRotating
    /\ probe.result[1].selectedAnnotationId = 1
    /\ probe.result[1].draggingId = 0
\* C31: a press of the eraser in object mode removes from the list the
\* top-most annotation hit at the point and nothing else: the annotations
\* below and above it keep their order; when nothing is hit the list is as
\* it was.
ObjectEraseRemovesOne ==
    [][(CanvasMouseDown /\ selectedTool = "eraser" /\ eraserMode = "object") =>
        \E point \in PressPoints :
            LET hit == findAnnotationAtPoint(annotations, point)
            IN  annotations' =
                    IF hit = 0 THEN annotations
                    ELSE SubSeq(annotations, 1, hit - 1)
                            \o SubSeq(annotations, hit + 1, Len(annotations))]_vars
\* C32: in every state undo and redo undo each other: with a non-empty list,
\* undo and then redo give back the list and the redoStack; with a non-empty
\* redoStack, redo and then undo give them back; undo on an empty list and
\* redo on an empty redoStack change nothing.
UndoRedoInverse ==
    LET undone == handleUndo(State)
        redone == handleRedo(State)
    IN  /\ annotations # <<>> =>
              /\ undone.annotations # annotations
              /\ handleRedo(undone).annotations = annotations
              /\ handleRedo(undone).redoStack = redoStack
        /\ redoStack # <<>> =>
              /\ redone.redoStack # redoStack
              /\ handleUndo(redone).annotations = annotations
              /\ handleUndo(redone).redoStack = redoStack
        /\ annotations = <<>> => undone = State
        /\ redoStack = <<>> => redone = State

\* after an undo, with an annotation in the list and another in the redoStack
UndoneAndListedWitness ==
    /\ Len(annotations) = 1 /\ Len(redoStack) = 1
    /\ annotations[1] # redoStack[1]
    /\ handleRedo(handleUndo(State)).redoStack = redoStack

\* C34: selectedAnnotationId is null or the id of an annotation in the list,
\* so that canDuplicate holds only when Duplicate adds an annotation.
SelectionNeverDangling ==
    /\ selectedAnnotationId # 0 => ~Stale(selectedAnnotationId)
    /\ canDuplicate(State) => handleDuplicate(State, clock).annotations # annotations

\* C37: no two callouts in the list carry the same number.
CalloutNumbersUnique ==
    \A i, j \in 1..Len(annotations) :
        (i # j /\ annotations[i].type = "callout" /\ annotations[j].type = "callout")
            => annotations[i].calloutNumber # annotations[j].calloutNumber

\* C38: every freehand annotation in the list or in the redoStack has at
\* least one path point.
FreehandHasPoints ==
    LET all == annotations \o redoStack
    IN  \A i \in 1..Len(all) : all[i].type = "draw" => Len(all[i].points) >= 1

\* a stroke drawn from (0, 20) to (40, 40) whose first point has been erased
PartlyErasedStrokeWitness ==
    \E i \in 1..Len(annotations) :
        annotations[i].type = "draw" /\ annotations[i].points = <<Pt(40, 40)>>
\* C35: a step that commits a text annotation (the list grows by a text
\* annotation) puts it at the point of the press that opened the text input
\* it was typed in, also when a further press at another point came between
\* the typing and the blur that commits it.
TextAtOpeningPress ==
    [][(/\ Len(annotations') = Len(annotations) + 1
        /\ annotations'[Len(annotations')].type = "text") =>
            probe.openedAt = <<annotations'[Len(annotations')].position>>]_vars
(***************************************************************************)
(* Button injection.  A container is an .overlay-container element of the  *)
(* page (they are not nested in one another), buttons the number of        *)
(* .deixis-host elements in it; the lightbox is the element                *)
(* .generated-image-expansion-dialog-action-buttons, img whether the       *)
(* dialog shows an image with a src.  pending: a childList mutation under  *)
(* document.body has been recorded for the MutationObserver and its        *)
(* callback has not yet run.                                               *)
(***************************************************************************)
injectDeixisButtonsAgain(containers) ==
    [c \in DOMAIN containers |->
        IF containers[c].present /\ containers[c].buttons < 2
        THEN [containers[c] EXCEPT !.buttons = @ + 1]
        ELSE containers[c]]

\* injectDeixisButtons: every container without a .deixis-host in it gets one
\* inserted before its first child
injectDeixisButtons(containers) ==
    [c \in DOMAIN containers |->
        IF containers[c].present /\ containers[c].buttons = 0
        THEN [containers[c] EXCEPT !.buttons = @ + 1]
        ELSE containers[c]]

\* injectLightboxButton: returns without the lightbox, with a button already
\* in it, or without an image src
injectLightboxButton(lightbox) ==
    IF lightbox.present /\ lightbox.buttons = 0 /\ lightbox.img
    THEN [lightbox EXCEPT !.buttons = @ + 1]
    ELSE lightbox

\* both injections run on the page; an insertion is itself a childList
\* mutation under document.body, which the observer records
Injected(pg) ==
    LET containers == injectDeixisButtons(pg.containers)
        lightbox == injectLightboxButton(pg.lightbox)
    IN  [pg EXCEPT !.containers = containers, !.lightbox = lightbox,
                   !.pending = (containers # pg.containers \/ lightbox # pg.lightbox)]

\* main(): the observer is set up, then the initial injection runs
Main ==
    /\ ~page.started
    /\ page' = [Injected(page) EXCEPT !.started = TRUE]
    /\ UNCHANGED <<componentVars, ioVars, probe, sessions>>

\* the MutationObserver callback
ObserverFires ==
    /\ page.pending
    /\ page' = Injected(page)
    /\ UNCHANGED <<componentVars, ioVars, probe, sessions>>

\* the page (or the overlay host appended to document.body) changes the
\* document: a container appears, disappears or is rendered again without the
\* button, the lightbox opens, gets its image or closes, or some other
\* element changes.  Once main() has run the observer records the mutation.
PageMutates ==
    /\ page.mutations < MaxPageMutations
    /\ \E pg \in
            {[page EXCEPT !.containers[c] = [present |-> b, buttons |-> 0]] :
                c \in 1..MaxContainers, b \in BOOLEAN}
            \cup {[page EXCEPT !.lightbox = [present |-> b, img |-> i, buttons |-> 0]] :
                    b \in BOOLEAN, i \in BOOLEAN}
            \cup {page} :
           /\ ~pg.lightbox.present => ~pg.lightbox.img
           /\ page' = [pg EXCEPT !.mutations = @ + 1, !.pending = page.started]
    /\ UNCHANGED <<componentVars, ioVars, probe, sessions>>

NextInject ==
    \/ Main
    \/ ObserverFires
    \/ PageMutates

\* the callback of a MutationObserver is run whenever a mutation has been
\* recorded for it
SpecInject == Init /\ [][NextInject]_vars /\ WF_vars(ObserverFires)

\* C33: after any runs of the injection no image container holds more than
\* one Deixis button; a run that finds a button in every container adds
\* nothing and leaves no mutation for the observer; and the callbacks come to
\* an end, leaving every container of the page with its button.
InjectionSettles ==
    /\ [](\A c \in 1..MaxContainers : page.containers[c].buttons <= 1)
    /\ [][(Main \/ ObserverFires)
            /\ (\A c \in 1..MaxContainers :
                   page.containers[c].present => page.containers[c].buttons >= 1)
          => page'.containers = page.containers
             /\ (page'.lightbox = page.lightbox => ~page'.pending)]_vars
    /\ <>[](~page.pending)
    /\ []((page.started /\ ~page.pending) =>
            \A c \in 1..MaxContainers :
                page.containers[c].present => page.containers[c].buttons = 1)

\* every container and the lightbox have got their button, and the observer
\* has run again after the last insertion and found nothing to add
ReinjectionWitness ==
    /\ page.started /\ ~page.pending
    /\ page.lightbox.buttons = 1
    /\ \A c \in 1..MaxContainers :
          page.containers[c].present /\ page.containers[c].buttons = 1

(***************************************************************************)
(* Exports and overlay sessions.                                           *)
(***************************************************************************)
\* C36: the completion of a Copy or Save closes only the overlay session it
\* was started in: it never closes a session opened after its own session was
\* cancelled.
CompletionClosesOwnSession ==
    \A k \in 1..Len(sessions.closedBy) :
        sessions.closedBy[k].closed = sessions.closedBy[k].startedIn

====
